---- MODULE Spec2Model ----
(***************************************************************************)
(* A model of the framed multiplexing client (ssh-client): the frame codec *)
(* (mux_protocol.cpp), the SOCKS5 parser (socks5_handler.cpp), the channel *)
(* state machine (channel.cpp), the session dispatcher (mux_session.cpp)   *)
(* and the outbound TCP connection (tcp_connection.cpp).                   *)
(*                                                                         *)
(* Byte buffers are sequences of naturals below 256.  Handlers are pure    *)
(* operators over records; each action of a specification applies one      *)
(* whole handler.                                                          *)
(*                                                                         *)
(* In Spec, SpecChannel and SpecSendToMux each handler runs to its end     *)
(* before the next one starts.  Interleavings inside the handlers are      *)
(* modelled by SpecTcp (one TcpConnection used by several threads) and by  *)
(* SpecRace (one Channel used by two I/O workers), where each read or      *)
(* write of an unprotected member is a step.  SpecSocks5Session models the *)
(* Socks5Session of the SSH variant (socks5_session.cpp).  In Spec a       *)
(* completion of a connection that has been destroyed is not delivered;    *)
(* SpecOrphan delivers it, and also lets a dispatch that holds a Channel   *)
(* pointer run after the channel was destroyed.  A keepalive timer that    *)
(* outlives its session still fires.  SpecSend models SslTransport::Send   *)
(* called from several threads record by record, SpecClosing the session   *)
(* with a peer that answers every CHANNEL_CLOSE, SpecHandshake the SOCKS5  *)
(* handshake cut into CHANNEL_REQUEST payloads, SpecWindow the window      *)
(* counters next to their exact sums, and SpecSupervisor the reconnect     *)
(* loop of main.cpp.  FRAME_MAX_PAYLOAD, the channel window and the widths *)
(* of uint32 and int are scaled down; the scaled values are the bounds     *)
(* defined below.                                                          *)
(***************************************************************************)
EXTENDS Integers, Sequences, FiniteSets, TLC

VARIABLES
    \* ---- frame codec harness (SpecCodec) ----
    frames_in,      \* the frames the peer encoded, in order
    stream,         \* their concatenated encoding
    fed,            \* number of bytes of stream already passed to Feed
    m_buffer,       \* FrameCodec::m_buffer[0 .. m_used)
    decoded,        \* frames emitted by all Feed calls so far
    codec_err,      \* a Feed call has hit the payload-too-large return
    cut_header,     \* some chunk boundary fell inside a frame header
    cut_payload,    \* some chunk boundary fell inside a frame payload
    multi_frame,    \* some single Feed call emitted at least two frames
    \* ---- MuxSession and what it acts on (Spec) ----
    owner_pc,           \* where RunSession (main.cpp) stands with this session
    m_running,          \* MuxSession::m_running
    m_on_disconnect,    \* MuxSession::m_on_disconnect holds a callback
    m_keepalive_timer,  \* MuxSession::m_keepalive_timer is a live timer
    m_channels,         \* MuxSession::m_channels: id -> Channel
    t_connected,        \* SslTransport::m_connected
    t_recv_pending,     \* a WSARecv of the transport is in flight
    sent,               \* id -> frames passed to SendFrame since CHANNEL_OPEN(id)
    sockets,            \* id -> open sockets of the connections made for id
    disconnect_calls,   \* invocations of the callback installed by Start
    disconnect_reason,  \* the error code of the last such invocation
    disconnect_view,    \* the session as the last such invocation found it
    t_signals,          \* invocations of SslTransport::m_on_disconnect
    \* ---- one Channel::SendToMux call, pass by pass (SpecSendToMux) ----
    stm_data,       \* the buffer passed to SendToMux
    stm_offset,     \* the local variable offset
    stm_x,          \* the channel and the frames the call has sent so far
    \* ---- harnesses of single objects, each a record ----
    p5,             \* the SOCKS5 parsers on a growing input (SpecSocks5)
    tcp,            \* one TcpConnection, its socket and its callers (SpecTcp)
    s5s,            \* one Socks5Session and its SSH channel (SpecSocks5Session)
    race,           \* one Channel, statement by statement, on two workers (SpecRace)
    orph,           \* a session and the I/O of the connections it destroyed (SpecOrphan)
    xmit,           \* SslTransport::Send called from several threads (SpecSend)
    hs,             \* one channel fed a SOCKS5 handshake in pieces (SpecHandshake)
    win,            \* one channel's window counters at full width (SpecWindow)
    sup             \* the reconnect loop of main (SpecSupervisor)

codecVars == <<frames_in, stream, fed, m_buffer, decoded, codec_err,
               cut_header, cut_payload, multi_frame>>

sessVars == <<owner_pc, m_running, m_on_disconnect, m_keepalive_timer, m_channels,
              t_connected, t_recv_pending, sent, sockets, disconnect_calls,
              disconnect_reason, disconnect_view, t_signals>>

stmVars == <<stm_data, stm_offset, stm_x>>

moreVars == <<orph, xmit, hs, win, sup>>

auxVars == <<p5, tcp, s5s, race, moreVars>>

vars == <<codecVars, sessVars, stmVars, auxVars>>

\* ------------------------------------------------------------------ bounds

\* Stand-in for FRAME_MAX_PAYLOAD = 65536 (mux_protocol.h:24), scaled so that
\* frames at, below and above the limit are all reachable.
FRAME_MAX_PAYLOAD == 16

\* Longest payload, short of the limit itself, that the codec harness encodes.
MaxPayload == 1

\* Number of frames the codec harness encodes into one stream.
MaxFrames == 2

\* Stand-in for the configured channel_window_size (default 262144).
ChannelWindowSize == 4

\* Frames a channel spec logs over all ids.
MaxChannelSent == 5

\* Frames logged over all ids, bytes of window credit and buffers queued on
\* a connection beyond which the environment of Spec offers no further input.
MaxSent == 4
WindowCap == 6
MaxQueue == 1

\* SOCKS5 bytes a channel may be left holding unparsed.
MaxSocksPending == 4

\* The configured keepalive_interval_ms (its default).
KeepaliveMs == 30000

\* ------------------------------------------------------------ program constants

FRAME_HEADER_SIZE == 8

FT_ChannelOpen == 1
FT_ChannelOpenAck == 2
FT_ChannelRequest == 3
FT_ChannelRequestAck == 4
FT_Data == 5
FT_ChannelClose == 6
FT_ChannelCloseAck == 7
FT_Ping == 8
FT_Pong == 9
FT_WindowUpdate == 10

FRAME_FLAG_FIN == 1
FRAME_FLAG_RST == 2

\* ------------------------------------------------------------------ helpers

Min(a, b) == IF a < b THEN a ELSE b

SeqsUpTo(S, n) == UNION {[1..k -> S] : k \in 0..n}

RECURSIVE Flatten(_)
Flatten(ss) == IF ss = <<>> THEN <<>> ELSE Head(ss) \o Flatten(Tail(ss))

\* memcpy of a uint16_t / uint32_t on a little-endian machine
LE16(v) == <<v % 256, (v \div 256) % 256>>
LE32(v) == <<v % 256, (v \div 256) % 256, (v \div 65536) % 256, (v \div 16777216) % 256>>
FromLE16(b) == b[1] + 256 * b[2]
FromLE32(b) == b[1] + 256 * b[2] + 65536 * b[3] + 16777216 * b[4]

\* --------------------------------------------------------------- frame codec

\* FrameCodec::Encode: the packed 8-byte header followed by the payload.
Encode(type, flags, channel_id, payload) ==
    <<type, flags>> \o LE16(channel_id) \o LE32(Len(payload)) \o payload

\* The header memcpy'd out of the first 8 bytes of the accumulation buffer.
ReadHeader(buf) ==
    [type           |-> buf[1],
     flags          |-> buf[2],
     channel_id     |-> FromLE16(SubSeq(buf, 3, 4)),
     payload_length |-> FromLE32(SubSeq(buf, 5, 8))]

\* Mutant of ParseFrames: after emitting a frame the remaining bytes are not
\* shifted down but dropped (m_used = 0).
RECURSIVE ParseFrames_DropRemaining(_, _)
ParseFrames_DropRemaining(buf, frames) ==
    IF Len(buf) < FRAME_HEADER_SIZE
    THEN [buf |-> buf, frames |-> frames, err |-> FALSE]
    ELSE LET hdr   == ReadHeader(buf)
             total == FRAME_HEADER_SIZE + hdr.payload_length
         IN  IF hdr.payload_length > FRAME_MAX_PAYLOAD
             THEN [buf |-> <<>>, frames |-> frames, err |-> TRUE]
             ELSE IF Len(buf) < total
             THEN [buf |-> buf, frames |-> frames, err |-> FALSE]
             ELSE ParseFrames_DropRemaining(
                      <<>>,
                      Append(frames,
                             [header  |-> hdr,
                              payload |-> SubSeq(buf, FRAME_HEADER_SIZE + 1, total)]))

\* The inner loop of FrameCodec::Feed: parse complete frames off the front of
\* the accumulation buffer.  err is the "payload too large" return, which
\* discards the buffer (m_used = 0).
RECURSIVE ParseFrames(_, _)
ParseFrames(buf, frames) ==
    IF Len(buf) < FRAME_HEADER_SIZE
    THEN [buf |-> buf, frames |-> frames, err |-> FALSE]
    ELSE LET hdr   == ReadHeader(buf)
             total == FRAME_HEADER_SIZE + hdr.payload_length
         IN  IF hdr.payload_length > FRAME_MAX_PAYLOAD
             THEN [buf |-> <<>>, frames |-> frames, err |-> TRUE]
             ELSE IF Len(buf) < total
             THEN [buf |-> buf, frames |-> frames, err |-> FALSE]
             ELSE ParseFrames(
                      SubSeq(buf, total + 1, Len(buf)),
                      Append(frames,
                             [header  |-> hdr,
                              payload |-> SubSeq(buf, FRAME_HEADER_SIZE + 1, total)]))

\* m_buffer.size(), fixed by the constructor.
CodecBufferSize == FRAME_HEADER_SIZE + FRAME_MAX_PAYLOAD

\* The outer loop of FrameCodec::Feed from a given offset into data.
RECURSIVE FeedFrom(_, _, _, _)
FeedFrom(buf, data, offset, frames) ==
    IF offset >= Len(data)
    THEN [buf |-> buf, frames |-> frames, err |-> FALSE]
    ELSE LET avail   == Len(data) - offset
             space   == CodecBufferSize - Len(buf)
             to_copy == Min(avail, space)
             r       == ParseFrames(buf \o SubSeq(data, offset + 1, offset + to_copy),
                                    frames)
         IN  IF r.err THEN r
             ELSE FeedFrom(r.buf, data, offset + to_copy, r.frames)

\* FrameCodec::Feed(data, len, out_frames) with an empty out_frames.
Feed(buf, data) == FeedFrom(buf, data, 0, <<>>)

\* ------------------------------------------------------------ SOCKS5 parser

SOCKS_VERSION == 5
AUTH_NONE == 0
AUTH_NO_ACCEPTABLE == 255
CMD_CONNECT == 1
ATYP_IPV4 == 1
ATYP_DOMAIN == 3
ATYP_IPV6 == 4
REP_SUCCESS == 0
REP_GENERAL_FAILURE == 1
REP_NETWORK_UNREACHABLE == 3
REP_HOST_UNREACHABLE == 4
REP_CONNECTION_REFUSED == 5
REP_TTL_EXPIRED == 6

\* Mutant of ParseMethodRequest: the length of the method list is not
\* compared with the bytes at hand.
ParseMethodRequest_Eager(data) ==
    IF Len(data) < 2 THEN [consumed |-> 0, supports_no_auth |-> FALSE]
    ELSE IF data[1] # SOCKS_VERSION THEN [consumed |-> -1, supports_no_auth |-> FALSE]
    ELSE [consumed |-> 2 + data[2],
          supports_no_auth |-> \E i \in 3..Len(data) : data[i] = AUTH_NONE]

\* Socks5::ParseMethodRequest: consumed is 0 (incomplete), -1 (error) or the
\* length of the message.
ParseMethodRequest(data) ==
    IF Len(data) < 2 THEN [consumed |-> 0, supports_no_auth |-> FALSE]
    ELSE IF data[1] # SOCKS_VERSION THEN [consumed |-> -1, supports_no_auth |-> FALSE]
    ELSE LET nmethods == data[2]
             total    == 2 + nmethods
         IN  IF Len(data) < total THEN [consumed |-> 0, supports_no_auth |-> FALSE]
             ELSE [consumed |-> total,
                   supports_no_auth |-> \E i \in 1..nmethods : data[2 + i] = AUTH_NONE]

\* Socks5::BuildMethodResponse
BuildMethodResponse(method) == <<SOCKS_VERSION, method>>

\* A default-constructed ConnectRequest (atyp and port are not yet written).
NoRequest == [atyp |-> 0, host |-> <<>>, port |-> 0]

\* Socks5::ParseConnectRequest(data, len, out): out is written in place, its
\* atyp already before the length checks.  host is kept as the address bytes
\* (the text form of an IP address is a function of them).
ParseConnectRequest(data, out) ==
    IF Len(data) < 4 THEN [consumed |-> 0, req |-> out]
    ELSE IF data[1] # SOCKS_VERSION THEN [consumed |-> -1, req |-> out]
    ELSE LET atyp  == data[4]
             out1  == [out EXCEPT !.atyp = atyp]
         IN  IF atyp \notin {ATYP_IPV4, ATYP_DOMAIN, ATYP_IPV6}
             THEN [consumed |-> -1, req |-> out1]
             ELSE IF atyp = ATYP_DOMAIN /\ Len(data) < 5
             THEN [consumed |-> 0, req |-> out1]
             ELSE LET addr_len == CASE atyp = ATYP_IPV4   -> 4
                                    [] atyp = ATYP_DOMAIN -> 1 + data[5]
                                    [] atyp = ATYP_IPV6   -> 16
                      total == 4 + addr_len + 2
                      host  == IF atyp = ATYP_DOMAIN
                               THEN SubSeq(data, 6, 5 + data[5])
                               ELSE SubSeq(data, 5, 4 + addr_len)
                      port_offset == 4 + addr_len
                  IN  IF Len(data) < total THEN [consumed |-> 0, req |-> out1]
                      ELSE [consumed |-> total,
                            req |-> [atyp |-> atyp, host |-> host,
                                     port |-> data[port_offset + 1] * 256
                                              + data[port_offset + 2]]]

\* Socks5::BuildConnectReply(reply_code) with its default arguments
\* (atyp = IPv4, bind_addr = nullptr, bind_port = 0).
BuildConnectReply(reply_code) ==
    <<SOCKS_VERSION, reply_code, 0, ATYP_IPV4, 0, 0, 0, 0, 0, 0>>

\* ErrorCode values a connect can end with.
ConnectErrors ==
    {"ConnectionRefused", "HostUnreachable", "NetworkUnreachable", "ConnectionTimeout",
     "ConnectionReset", "SocketError", "DnsResolutionFailed", "Shutdown"}

\* Mutant of ErrorCodeToSocks5Reply: the two unreachable codes are exchanged.
ErrorCodeToSocks5Reply_Swapped(ec) ==
    CASE ec = "Success"            -> REP_SUCCESS
      [] ec = "NetworkUnreachable" -> REP_HOST_UNREACHABLE
      [] ec = "HostUnreachable"    -> REP_NETWORK_UNREACHABLE
      [] ec = "ConnectionRefused"  -> REP_CONNECTION_REFUSED
      [] ec = "ConnectionTimeout"  -> REP_TTL_EXPIRED
      [] OTHER                     -> REP_GENERAL_FAILURE

\* Socks5::ErrorCodeToSocks5Reply
ErrorCodeToSocks5Reply(ec) ==
    CASE ec = "Success"            -> REP_SUCCESS
      [] ec = "NetworkUnreachable" -> REP_NETWORK_UNREACHABLE
      [] ec = "HostUnreachable"    -> REP_HOST_UNREACHABLE
      [] ec = "ConnectionRefused"  -> REP_CONNECTION_REFUSED
      [] ec = "ConnectionTimeout"  -> REP_TTL_EXPIRED
      [] OTHER                     -> REP_GENERAL_FAILURE

\* --------------------------------------------------------- TcpConnection

\* A TcpConnection object together with the overlapped operations the kernel
\* still holds for it (their completions arrive later on an I/O worker).
\* exists = FALSE stands for an empty unique_ptr.
NoTarget ==
    [exists |-> FALSE, m_socket |-> "INVALID", m_connected |-> FALSE,
     m_reading |-> FALSE, m_send_in_progress |-> FALSE, m_send_queue |-> <<>>,
     has_read_callbacks |-> FALSE,
     connect_pending |-> FALSE, recv_pending |-> FALSE, send_pending |-> FALSE]

\* TcpConnection::TcpConnection
NewTcpConnection == [NoTarget EXCEPT !.exists = TRUE]

\* TcpConnection::ConnectAsync when it returns Success: the socket is created,
\* bound and associated and ConnectEx is in flight.  (On every other return
\* the socket is INVALID again and nothing is in flight.)
ConnectAsyncStarted(t) ==
    [t EXCEPT !.m_socket = "open", !.connect_pending = TRUE]

\* TcpConnection::Close.  CancelIoEx and closesocket abort the operations in
\* flight; their completions are still delivered, with ErrorCode::Shutdown.
TcpClose(t) ==
    [t EXCEPT !.m_connected = FALSE, !.m_reading = FALSE, !.m_socket = "INVALID",
              !.m_send_queue = <<>>, !.m_send_in_progress = FALSE]

\* closesocket calls made by TcpConnection::Close on t.
TcpCloseCount(t) == IF t.exists /\ t.m_socket = "open" THEN 1 ELSE 0

\* TcpConnection::FlushSendQueue; wsa_fail: WSASend fails at once.
FlushSendQueue(t, wsa_fail) ==
    IF t.m_send_queue = <<>> THEN [t EXCEPT !.m_send_in_progress = FALSE]
    ELSE IF wsa_fail THEN [t EXCEPT !.m_send_in_progress = FALSE]
    ELSE [t EXCEPT !.m_send_in_progress = TRUE, !.send_pending = TRUE]

\* TcpConnection::Send
TcpSend(t, data, wsa_fail) ==
    IF ~t.m_connected THEN t
    ELSE LET q == [t EXCEPT !.m_send_queue = Append(@, data)]
         IN  IF ~q.m_send_in_progress THEN FlushSendQueue(q, wsa_fail) ELSE q

\* TcpConnection::OnSendComplete
OnSendComplete(t, ec, wsa_fail) ==
    LET p == [t EXCEPT !.send_pending = FALSE,
                       !.m_send_queue = IF @ = <<>> THEN @ ELSE Tail(@)]
    IN  IF ec # "Success" THEN [p EXCEPT !.m_send_in_progress = FALSE]
        ELSE FlushSendQueue(p, wsa_fail)

\* TcpConnection::PostRecv; wsa_fail: WSARecv fails at once, and then
\* m_on_disconnect is to be invoked (disconnect = TRUE).
PostRecv(t, wsa_fail) ==
    IF ~t.m_connected \/ ~t.m_reading THEN [t |-> t, disconnect |-> FALSE]
    ELSE IF wsa_fail
    THEN [t |-> [t EXCEPT !.m_reading = FALSE], disconnect |-> t.has_read_callbacks]
    ELSE [t |-> [t EXCEPT !.recv_pending = TRUE], disconnect |-> FALSE]

\* TcpConnection::StartReading
StartReading(t, wsa_fail) ==
    PostRecv([t EXCEPT !.has_read_callbacks = TRUE, !.m_reading = TRUE], wsa_fail)

\* ------------------------------------------------------------------ Channel

\* Stand-in for 2^32, the modulus of the uint32_t window counters.
UINT32_MOD == 64

U32(v) == v % UINT32_MOD

\* Channel::Channel.  h_accepted and h_credit are history, not members: the
\* DATA payload bytes the channel has accepted and the WINDOW_UPDATE
\* increments it has received.
NewChannel(id, window_size) ==
    [m_id |-> id, m_state |-> "Opening", m_socks5_buf |-> <<>>,
     m_method_done |-> FALSE, m_connect_req |-> NoRequest, m_target |-> NoTarget,
     m_send_window |-> window_size, m_recv_window |-> window_size,
     m_recv_window_initial |-> window_size, m_recv_consumed |-> 0,
     h_accepted |-> 0, h_credit |-> 0]

\* A handler of a channel runs on x = [ch, out, closed, opened]: the channel,
\* the frame bytes it has passed to MuxSession::SendFrame (through the Send*
\* helpers and the Build* encoders) and the numbers of sockets it has closed
\* (closesocket) and left open (a ConnectAsync that returned Success).
Ctx(ch) == [ch |-> ch, out |-> <<>>, closed |-> 0, opened |-> 0]

\* MuxSession::SendChannelOpenAck .. SendWindowUpdate, as far as SendFrame.
SendChannelOpenAck(x, id) ==
    [x EXCEPT !.out = Append(@, Encode(FT_ChannelOpenAck, 0, id, <<>>))]
SendChannelRequestAck(x, id, data) ==
    [x EXCEPT !.out = Append(@, Encode(FT_ChannelRequestAck, 0, id, data))]
SendData(x, id, data) ==
    [x EXCEPT !.out = Append(@, Encode(FT_Data, 0, id, data))]
SendChannelClose(x, id, flags) ==
    [x EXCEPT !.out = Append(@, Encode(FT_ChannelClose, flags, id, <<>>))]
SendChannelCloseAck(x, id) ==
    [x EXCEPT !.out = Append(@, Encode(FT_ChannelCloseAck, 0, id, <<>>))]
\* FrameCodec::BuildWindowUpdate: the increment as 4 little-endian bytes.
SendWindowUpdate(x, id, increment) ==
    [x EXCEPT !.out = Append(@, Encode(FT_WindowUpdate, 0, id, LE32(increment)))]

\* Channel::SendCloseToMux
SendCloseToMux(x, flags) == SendChannelClose(x, x.ch.m_id, flags)

\* m_target->Close()
CloseTarget(x) ==
    [x EXCEPT !.closed = @ + TcpCloseCount(x.ch.m_target),
              !.ch.m_target = TcpClose(@)]

\* m_target.reset(): ~TcpConnection runs Close, then the object is gone.
ResetTarget(x) ==
    [x EXCEPT !.closed = @ + TcpCloseCount(x.ch.m_target),
              !.ch.m_target = NoTarget]

\* Channel::OnOpen
OnOpen(x) ==
    [SendChannelOpenAck([x EXCEPT !.ch.m_state = "Opening"], x.ch.m_id)
        EXCEPT !.ch.m_state = "Requesting"]

\* Mutant of ForceClose: it announces the close to the peer on every call.
ForceClose_Announce(x) ==
    LET y == SendCloseToMux(x, FRAME_FLAG_RST)
    IN  [(IF y.ch.m_target.exists THEN ResetTarget(CloseTarget(y)) ELSE y)
            EXCEPT !.ch.m_state = "Closed"]

\* Channel::ForceClose
ForceClose(x) ==
    IF x.ch.m_state = "Closed" THEN x
    ELSE [(IF x.ch.m_target.exists THEN ResetTarget(CloseTarget(x)) ELSE x)
            EXCEPT !.ch.m_state = "Closed"]

\* Channel::~Channel: ForceClose, then the members are destroyed
\* (~unique_ptr destroys a connection that is still owned).
DestroyChannel(x) == ResetTarget(ForceClose(x))

\* Mutant of OnTargetDisconnected: the CHANNEL_CLOSE goes out but the channel
\* keeps its state.
OnTargetDisconnected_KeepsState(x) ==
    LET y == IF x.ch.m_state \in {"Relaying", "Connecting"}
             THEN SendCloseToMux(x, FRAME_FLAG_FIN)
             ELSE x
    IN  IF y.ch.m_target.exists THEN CloseTarget(y) ELSE y

\* Channel::OnTargetDisconnected
OnTargetDisconnected(x) ==
    LET y == IF x.ch.m_state \in {"Relaying", "Connecting"}
             THEN [SendCloseToMux(x, FRAME_FLAG_FIN) EXCEPT !.ch.m_state = "Closing"]
             ELSE x
    IN  IF y.ch.m_target.exists THEN CloseTarget(y) ELSE y

\* Mutant of OnTargetConnected: a successful connect starts the relay without
\* the success reply.
OnTargetConnected_NoReply(x, ec, recv_fail) ==
    IF x.ch.m_state # "Connecting" THEN x
    ELSE IF ec # "Success"
    THEN LET y == SendCloseToMux(
                      SendChannelRequestAck(x, x.ch.m_id,
                          BuildConnectReply(ErrorCodeToSocks5Reply(ec))),
                      FRAME_FLAG_RST)
         IN  ResetTarget([y EXCEPT !.ch.m_state = "Closed"])
    ELSE LET y == [x EXCEPT !.ch.m_state = "Relaying"]
             r == StartReading(y.ch.m_target, recv_fail)
             z == [y EXCEPT !.ch.m_target = r.t]
         IN  IF r.disconnect THEN OnTargetDisconnected(z) ELSE z

\* Mutant of OnTargetConnected: after a failed connect the channel keeps its
\* connection object.
OnTargetConnected_KeepTarget(x, ec, recv_fail) ==
    IF x.ch.m_state # "Connecting" THEN x
    ELSE IF ec # "Success"
    THEN LET y == SendCloseToMux(
                      SendChannelRequestAck(x, x.ch.m_id,
                          BuildConnectReply(ErrorCodeToSocks5Reply(ec))),
                      FRAME_FLAG_RST)
         IN  CloseTarget([y EXCEPT !.ch.m_state = "Closed"])
    ELSE LET y == [SendChannelRequestAck(x, x.ch.m_id, BuildConnectReply(REP_SUCCESS))
                      EXCEPT !.ch.m_state = "Relaying"]
             r == StartReading(y.ch.m_target, recv_fail)
             z == [y EXCEPT !.ch.m_target = r.t]
         IN  IF r.disconnect THEN OnTargetDisconnected(z) ELSE z

\* Channel::OnTargetConnected; recv_fail: the first WSARecv fails at once.
OnTargetConnected(x, ec, recv_fail) ==
    IF x.ch.m_state # "Connecting" THEN x
    ELSE IF ec # "Success"
    THEN LET y == SendCloseToMux(
                      SendChannelRequestAck(x, x.ch.m_id,
                          BuildConnectReply(ErrorCodeToSocks5Reply(ec))),
                      FRAME_FLAG_RST)
         IN  ResetTarget([y EXCEPT !.ch.m_state = "Closed"])
    ELSE LET y == [SendChannelRequestAck(x, x.ch.m_id, BuildConnectReply(REP_SUCCESS))
                      EXCEPT !.ch.m_state = "Relaying"]
             r == StartReading(y.ch.m_target, recv_fail)
             z == [y EXCEPT !.ch.m_target = r.t]
         IN  IF r.disconnect THEN OnTargetDisconnected(z) ELSE z

\* Mutant of Socks5Fail: the reply and the CHANNEL_CLOSE go out but the
\* channel stays in Requesting.
Socks5Fail_StaysRequesting(x, reply) ==
    SendCloseToMux(SendChannelRequestAck(x, x.ch.m_id, reply), FRAME_FLAG_RST)

\* The failure exits of Channel::ProcessSocks5: a reply, CHANNEL_CLOSE(RST),
\* state Closed.
Socks5Fail(x, reply) ==
    [SendCloseToMux(SendChannelRequestAck(x, x.ch.m_id, reply), FRAME_FLAG_RST)
        EXCEPT !.ch.m_state = "Closed"]

\* The second half of Channel::ProcessSocks5 (from "Parse connect request").
\* connect_ec is what ConnectAsync returns.
ProcessConnect(x, connect_ec) ==
    IF x.ch.m_socks5_buf = <<>> THEN x
    ELSE LET r == ParseConnectRequest(x.ch.m_socks5_buf, x.ch.m_connect_req)
             y == [x EXCEPT !.ch.m_connect_req = r.req]
         IN  IF r.consumed = 0 THEN y
             ELSE IF r.consumed < 0
             THEN Socks5Fail(y, BuildConnectReply(REP_GENERAL_FAILURE))
             ELSE LET z == [y EXCEPT
                              !.ch.m_socks5_buf = SubSeq(@, r.consumed + 1, Len(@)),
                              !.ch.m_state = "Connecting",
                              !.ch.m_target = NewTcpConnection]
                  IN  IF connect_ec = "Success"
                      THEN [z EXCEPT !.ch.m_target = ConnectAsyncStarted(@),
                                     !.opened = @ + 1]
                      ELSE OnTargetConnected(z, connect_ec, FALSE)

\* Mutant of ProcessSocks5: a failed method negotiation sends the reply but
\* forgets the CHANNEL_CLOSE.
ProcessSocks5_NoClose(x, connect_ec) ==
    IF ~x.ch.m_method_done
    THEN LET r == ParseMethodRequest(x.ch.m_socks5_buf)
         IN  IF r.consumed = 0 THEN x
             ELSE IF r.consumed < 0 \/ ~r.supports_no_auth
             THEN [SendChannelRequestAck(x, x.ch.m_id,
                                         BuildMethodResponse(AUTH_NO_ACCEPTABLE))
                      EXCEPT !.ch.m_state = "Closed"]
             ELSE ProcessConnect(
                      [SendChannelRequestAck(x, x.ch.m_id, BuildMethodResponse(AUTH_NONE))
                          EXCEPT !.ch.m_socks5_buf = SubSeq(@, r.consumed + 1, Len(@)),
                                 !.ch.m_method_done = TRUE],
                      connect_ec)
    ELSE ProcessConnect(x, connect_ec)

\* Channel::ProcessSocks5
ProcessSocks5(x, connect_ec) ==
    IF ~x.ch.m_method_done
    THEN LET r == ParseMethodRequest(x.ch.m_socks5_buf)
         IN  IF r.consumed = 0 THEN x
             ELSE IF r.consumed < 0 \/ ~r.supports_no_auth
             THEN Socks5Fail(x, BuildMethodResponse(AUTH_NO_ACCEPTABLE))
             ELSE ProcessConnect(
                      [SendChannelRequestAck(x, x.ch.m_id, BuildMethodResponse(AUTH_NONE))
                          EXCEPT !.ch.m_socks5_buf = SubSeq(@, r.consumed + 1, Len(@)),
                                 !.ch.m_method_done = TRUE],
                      connect_ec)
    ELSE ProcessConnect(x, connect_ec)

\* Mutant of OnRequest: the request is processed in whatever state the
\* channel is.
OnRequest_AnyState(x, data, connect_ec) ==
    ProcessSocks5([x EXCEPT !.ch.m_socks5_buf = @ \o data], connect_ec)

\* Mutant of OnRequest: the payload replaces the buffer instead of being
\* appended to it.
OnRequest_NoAccumulate(x, data, connect_ec) ==
    IF x.ch.m_state # "Requesting" THEN x
    ELSE ProcessSocks5([x EXCEPT !.ch.m_socks5_buf = data], connect_ec)

\* Channel::OnRequest
OnRequest(x, data, connect_ec) ==
    IF x.ch.m_state # "Requesting" THEN x
    ELSE ProcessSocks5([x EXCEPT !.ch.m_socks5_buf = @ \o data], connect_ec)

\* Mutant of OnData: after a WINDOW_UPDATE the consumed count is kept.
OnData_KeepConsumed(x, data, send_fail) ==
    IF x.ch.m_state # "Relaying" THEN x
    ELSE LET y == [x EXCEPT !.ch.m_recv_consumed = U32(@ + Len(data)),
                            !.ch.h_accepted = @ + Len(data),
                            !.ch.m_target = IF @.exists THEN TcpSend(@, data, send_fail)
                                            ELSE @]
         IN  IF y.ch.m_recv_consumed >= y.ch.m_recv_window_initial \div 2
             THEN [SendWindowUpdate(y, y.ch.m_id, y.ch.m_recv_consumed)
                      EXCEPT !.ch.m_recv_window = U32(@ + y.ch.m_recv_consumed)]
             ELSE y

\* Channel::OnData; send_fail: the WSASend started by m_target->Send fails.
OnData(x, data, send_fail) ==
    IF x.ch.m_state # "Relaying" THEN x
    ELSE LET y == [x EXCEPT !.ch.m_recv_consumed = U32(@ + Len(data)),
                            !.ch.h_accepted = @ + Len(data),
                            !.ch.m_target = IF @.exists THEN TcpSend(@, data, send_fail)
                                            ELSE @]
         IN  IF y.ch.m_recv_consumed >= y.ch.m_recv_window_initial \div 2
             THEN [SendWindowUpdate(y, y.ch.m_id, y.ch.m_recv_consumed)
                      EXCEPT !.ch.m_recv_window = U32(@ + y.ch.m_recv_consumed),
                             !.ch.m_recv_consumed = 0]
             ELSE y

\* Channel::OnWindowUpdate
OnWindowUpdate(x, increment) ==
    [x EXCEPT !.ch.m_send_window = U32(@ + increment), !.ch.h_credit = @ + increment]

\* Channel::OnClose
OnClose(x, flags) ==
    LET y == SendChannelCloseAck(x, x.ch.m_id)
    IN  [(IF y.ch.m_target.exists THEN ResetTarget(CloseTarget(y)) ELSE y)
            EXCEPT !.ch.m_state = "Closed"]

\* Mutant of SendToMuxChunk: with the send window at zero the rest of the
\* buffer goes out as one chunk, whatever its size.
SendToMuxChunk_NoLimit(remaining, send_window) ==
    IF send_window > 0
    THEN [chunk |-> Min(Min(remaining, FRAME_MAX_PAYLOAD), send_window),
          window |-> send_window - Min(Min(remaining, FRAME_MAX_PAYLOAD), send_window)]
    ELSE [chunk |-> remaining, window |-> send_window]

\* One pass of the loop of Channel::SendToMux with `remaining` bytes left:
\* the size of the next chunk and the send window after it.
SendToMuxChunk(remaining, send_window) ==
    LET chunk == Min(remaining, FRAME_MAX_PAYLOAD)
    IN  IF send_window > 0
        THEN [chunk |-> Min(chunk, send_window),
              window |-> send_window - Min(chunk, send_window)]
        ELSE [chunk |-> chunk, window |-> send_window]

\* The body of the loop of Channel::SendToMux: the channel and the offset
\* after one pass.
SendToMuxPass(x, data, offset) ==
    LET s == SendToMuxChunk(Len(data) - offset, x.ch.m_send_window)
    IN  [x      |-> SendData([x EXCEPT !.ch.m_send_window = s.window], x.ch.m_id,
                             SubSeq(data, offset + 1, offset + s.chunk)),
         offset |-> offset + s.chunk]

\* Channel::SendToMux from a given offset.
RECURSIVE SendToMuxFrom(_, _, _)
SendToMuxFrom(x, data, offset) ==
    IF offset >= Len(data) THEN x
    ELSE LET p == SendToMuxPass(x, data, offset)
         IN  SendToMuxFrom(p.x, data, p.offset)

SendToMux(x, data) == SendToMuxFrom(x, data, 0)

\* Channel::OnTargetData
OnTargetData(x, data) ==
    IF x.ch.m_state # "Relaying" THEN x ELSE SendToMux(x, data)

\* TcpConnection::OnRecvComplete on the channel's connection, with the channel
\* callbacks it invokes.  bytes = <<>> is a 0-byte read; post_fail: the next
\* WSARecv fails at once.
TargetRecvComplete(x, bytes, ec, post_fail) ==
    LET y == [x EXCEPT !.ch.m_target.recv_pending = FALSE]
    IN  IF ec # "Success" \/ bytes = <<>>
        THEN LET z == [y EXCEPT !.ch.m_target.m_reading = FALSE]
             IN  IF z.ch.m_target.has_read_callbacks THEN OnTargetDisconnected(z) ELSE z
        ELSE LET z == IF y.ch.m_target.has_read_callbacks THEN OnTargetData(y, bytes) ELSE y
                 r == PostRecv(z.ch.m_target, post_fail)
                 w == [z EXCEPT !.ch.m_target = r.t]
             IN  IF ~z.ch.m_target.m_reading THEN z
                 ELSE IF r.disconnect THEN OnTargetDisconnected(w) ELSE w

\* The completion callback installed by TcpConnection::ConnectAsync, with
\* Channel::OnTargetConnected, which it invokes.
TargetConnectComplete(x, ec, recv_fail) ==
    OnTargetConnected(
        [x EXCEPT !.ch.m_target.connect_pending = FALSE,
                  !.ch.m_target.m_connected = IF ec = "Success" THEN TRUE ELSE @],
        ec, recv_fail)

\* --------------------------------------------------------------- MuxSession

\* Channel ids the peer uses; 258 has both id bytes non-zero.
ChanIds == {1, 258}

\* Ids under which sent frames are logged (0: PING and PONG).
LogIds == ChanIds \cup {0}

\* The session and what it acts on, as one record S:
\*   m_running, m_keepalive_timer, m_channels, m_codec   MuxSession's members
\*   t_connected          SslTransport::m_connected
\*   sent[id]             the frames passed to SendFrame for id since the last
\*                        CHANNEL_OPEN(id), each with wire = it was handed to
\*                        a connected transport
\*   sockets[id]          open sockets of connections made for channel id
\*   disconnect_calls     invocations of the callback installed by Start
HeaderOf(bytes) == ReadHeader(bytes)
PayloadOf(bytes) == SubSeq(bytes, FRAME_HEADER_SIZE + 1, Len(bytes))

\* MuxSession::SendFrame, then SslTransport::Send up to its m_connected test.
SendFrame(S, bytes) ==
    [S EXCEPT !.sent[HeaderOf(bytes).channel_id] =
        Append(@, [frame |-> bytes, wire |-> S.m_running /\ S.t_connected])]

RECURSIVE SendFrames(_, _)
SendFrames(S, out) ==
    IF out = <<>> THEN S ELSE SendFrames(SendFrame(S, Head(out)), Tail(out))

\* What a channel handler's run x leaves behind, without the channel itself.
Effects(S, id, x) ==
    [SendFrames(S, x.out) EXCEPT !.sockets[id] = @ + x.opened - x.closed]

\* The same with the channel stored back in the registry.
Stored(S, id, x) ==
    [Effects(S, id, x) EXCEPT !.m_channels = [i \in DOMAIN @ |-> IF i = id THEN x.ch ELSE @[i]]]

Without(f, id) == [i \in (DOMAIN f) \ {id} |-> f[i]]

\* MuxSession::RemoveChannel: erase destroys the channel.
RemoveChannel(S, id) ==
    IF id \notin DOMAIN S.m_channels THEN S
    ELSE [Effects(S, id, DestroyChannel(Ctx(S.m_channels[id])))
            EXCEPT !.m_channels = Without(@, id)]

\* MuxSession::HandleChannelOpen: the assignment into the map destroys a
\* channel already stored under the id.
HandleChannelOpen(S, frame) ==
    LET id  == frame.header.channel_id
        S1  == [RemoveChannel(S, id) EXCEPT !.sent[id] = <<>>]
        x   == OnOpen(Ctx(NewChannel(id, S.m_channel_window_size)))
    IN  [Effects(S1, id, x) EXCEPT
            !.m_channels = [i \in (DOMAIN @) \cup {id} |-> IF i = id THEN x.ch ELSE @[i]]]

\* Mutant of HandleChannelRequest: a request that closes its channel stops the
\* session.
HandleChannelRequest_FatalFailure(S, frame, env) ==
    LET id == frame.header.channel_id
    IN  IF id \notin DOMAIN S.m_channels THEN S
        ELSE LET S1 == Stored(S, id, OnRequest(Ctx(S.m_channels[id]), frame.payload,
                                               env.connect_ec))
             IN  IF S1.m_channels[id].m_state = "Closed" /\ S.m_channels[id].m_state # "Closed"
                 THEN [S1 EXCEPT !.m_running = FALSE]
                 ELSE S1

\* MuxSession::HandleChannelRequest
HandleChannelRequest(S, frame, env) ==
    LET id == frame.header.channel_id
    IN  IF id \notin DOMAIN S.m_channels THEN S
        ELSE Stored(S, id, OnRequest(Ctx(S.m_channels[id]), frame.payload, env.connect_ec))

\* MuxSession::HandleData
HandleData(S, frame, env) ==
    LET id == frame.header.channel_id
    IN  IF id \notin DOMAIN S.m_channels THEN S
        ELSE Stored(S, id, OnData(Ctx(S.m_channels[id]), frame.payload, env.send_fail))

\* Mutant of HandleChannelClose: a CHANNEL_CLOSE for an id that is not in the
\* registry is not answered.
HandleChannelClose_SilentUnknown(S, frame) ==
    LET id == frame.header.channel_id
    IN  IF id \notin DOMAIN S.m_channels THEN S
        ELSE LET S1 == Stored(S, id, OnClose(Ctx(S.m_channels[id]), frame.header.flags))
             IN  IF S1.m_channels[id].m_state = "Closed" THEN RemoveChannel(S1, id)
                 ELSE S1

\* MuxSession::HandleChannelClose
HandleChannelClose(S, frame) ==
    LET id == frame.header.channel_id
    IN  IF id \notin DOMAIN S.m_channels
        THEN SendFrame(S, Encode(FT_ChannelCloseAck, 0, id, <<>>))
        ELSE LET S1 == Stored(S, id, OnClose(Ctx(S.m_channels[id]), frame.header.flags))
             IN  IF S1.m_channels[id].m_state = "Closed" THEN RemoveChannel(S1, id)
                 ELSE S1

\* Mutant of HandleChannelCloseAck: the channel is force-closed but stays in
\* the registry.
HandleChannelCloseAck_NoRemove(S, frame) ==
    LET id == frame.header.channel_id
    IN  IF id \notin DOMAIN S.m_channels THEN S
        ELSE Stored(S, id, ForceClose(Ctx(S.m_channels[id])))

\* MuxSession::HandleChannelCloseAck
HandleChannelCloseAck(S, frame) ==
    LET id == frame.header.channel_id
    IN  IF id \notin DOMAIN S.m_channels THEN S
        ELSE RemoveChannel(Stored(S, id, ForceClose(Ctx(S.m_channels[id]))), id)

\* Mutant of HandlePing: the PING is swallowed.
HandlePing_Silent(S, frame) == S

\* MuxSession::HandlePing
HandlePing(S, frame) == SendFrame(S, Encode(FT_Pong, 0, 0, <<>>))

\* MuxSession::HandleWindowUpdate
HandleWindowUpdate(S, frame) ==
    LET id == frame.header.channel_id
    IN  IF Len(frame.payload) < 4 THEN S
        ELSE IF id \notin DOMAIN S.m_channels THEN S
        ELSE Stored(S, id, OnWindowUpdate(Ctx(S.m_channels[id]),
                                          FromLE32(SubSeq(frame.payload, 1, 4))))

\* MuxSession::DispatchFrame.  env holds what the operating system answers
\* inside the handler: connect_ec (the return of ConnectAsync) and send_fail
\* (WSASend fails at once).
DispatchFrame(S, frame, env) ==
    LET ft == frame.header.type
    IN  CASE ft = FT_ChannelOpen     -> HandleChannelOpen(S, frame)
          [] ft = FT_ChannelRequest  -> HandleChannelRequest(S, frame, env)
          [] ft = FT_Data            -> HandleData(S, frame, env)
          [] ft = FT_ChannelClose    -> HandleChannelClose(S, frame)
          [] ft = FT_ChannelCloseAck -> HandleChannelCloseAck(S, frame)
          [] ft = FT_Ping            -> HandlePing(S, frame)
          [] ft = FT_WindowUpdate    -> HandleWindowUpdate(S, frame)
          [] OTHER                   -> S

RECURSIVE DispatchAll(_, _, _)
DispatchAll(S, frames, env) ==
    IF frames = <<>> THEN S
    ELSE DispatchAll(DispatchFrame(S, Head(frames), env), Tail(frames), env)

\* MuxSession::OnDataReceived
OnDataReceived(S, data, env) ==
    LET r == Feed(S.m_codec, data)
    IN  DispatchAll([S EXCEPT !.m_codec = r.buf], r.frames, env)

\* MuxSession::CloseAllChannels: ForceClose every channel, then clear the map.
RECURSIVE CloseAllChannels(_)
CloseAllChannels(S) ==
    IF DOMAIN S.m_channels = {} THEN S
    ELSE LET id == CHOOSE i \in DOMAIN S.m_channels : TRUE
         IN  CloseAllChannels(
                 RemoveChannel(Stored(S, id, ForceClose(Ctx(S.m_channels[id]))), id))

\* Mutant of StopKeepaliveTimer: the timer is left in the timer queue.
StopKeepaliveTimer_Leave(S) == S

\* MuxSession::KeepaliveTimerCallback
KeepaliveTimerCallback(S) ==
    IF S.m_running THEN SendFrame(S, Encode(FT_Ping, 0, 0, <<>>)) ELSE S

\* MuxSession::StopKeepaliveTimer: DeleteTimerQueueTimer with
\* INVALID_HANDLE_VALUE returns when no callback of the timer runs any more.
StopKeepaliveTimer(S) == [S EXCEPT !.m_keepalive_timer = FALSE]

\* MuxSession::StartKeepaliveTimer
StartKeepaliveTimer(S) ==
    IF S.m_keepalive_ms <= 0 THEN S ELSE [S EXCEPT !.m_keepalive_timer = TRUE]

\* Mutant of Shutdown: it reports the shutdown through the disconnect callback.
Shutdown_Notify(S) ==
    IF ~S.m_running THEN S
    ELSE [CloseAllChannels(StopKeepaliveTimer([S EXCEPT !.m_running = FALSE]))
            EXCEPT !.disconnect_calls = @ + 1]

\* MuxSession::Shutdown
Shutdown(S) ==
    IF ~S.m_running THEN S
    ELSE CloseAllChannels(StopKeepaliveTimer([S EXCEPT !.m_running = FALSE]))

\* What a callback invoked by the session finds when it looks at it.
SessionView(S) ==
    [m_running |-> S.m_running, m_keepalive_timer |-> S.m_keepalive_timer,
     channels |-> DOMAIN S.m_channels,
     open_sockets |-> {i \in DOMAIN S.sockets : S.sockets[i] > 0}]

\* if (m_on_disconnect) m_on_disconnect(ec): the callback RunSession passed
\* to Start stores the reason and sets the event.
InvokeOnDisconnect(S, ec) ==
    IF S.m_on_disconnect
    THEN [S EXCEPT !.disconnect_calls = @ + 1, !.disconnect_reason = ec,
                   !.disconnect_view = <<SessionView(S)>>]
    ELSE S

\* Mutant of OnTransportDisconnected: the callback runs before the teardown.
OnTransportDisconnected_CallbackFirst(S, ec) ==
    CloseAllChannels(StopKeepaliveTimer(
        [InvokeOnDisconnect(S, ec) EXCEPT !.m_running = FALSE]))

\* MuxSession::OnTransportDisconnected
OnTransportDisconnected(S, ec) ==
    InvokeOnDisconnect(
        CloseAllChannels(StopKeepaliveTimer([S EXCEPT !.m_running = FALSE])), ec)

\* MuxSession::Start, up to m_transport->StartReading.
Start(S) ==
    StartKeepaliveTimer([S EXCEPT !.m_on_disconnect = TRUE, !.m_running = TRUE])

\* ------------------------------------------------------- codec harness

\* Frames the harness encodes: two header variants (a channel id above 255
\* exercises both id bytes) and, for every length up to the payload limit, the
\* payload of that length with pairwise distinct neighbouring bytes.
HarnessByte(i) == (7 * i) % 256

HarnessPayloads ==
    {[i \in 1..n |-> HarnessByte(i)] : n \in (0..MaxPayload) \cup {FRAME_MAX_PAYLOAD}}

HarnessFrames ==
    {[type |-> h[1], flags |-> h[2], channel_id |-> h[3], payload |-> p] :
        h \in {<<FT_Data, 0, 1>>, <<FT_ChannelClose, FRAME_FLAG_RST, 258>>},
        p \in HarnessPayloads}

EncodeFrame(f) == Encode(f.type, f.flags, f.channel_id, f.payload)

EncodeAll(fs) == Flatten([i \in 1..Len(fs) |-> EncodeFrame(fs[i])])

\* Offsets (in stream) at which frame i starts and ends.
FrameEnd(fs, i) == Len(EncodeAll(SubSeq(fs, 1, i)))
FrameStart(fs, i) == FrameEnd(fs, i - 1)

\* The session's variables while only the codec harness runs.
SessIdle ==
    /\ owner_pc = "none"
    /\ m_running = FALSE
    /\ m_on_disconnect = FALSE
    /\ m_keepalive_timer = FALSE
    /\ m_channels = <<>>
    /\ t_connected = FALSE
    /\ t_recv_pending = FALSE
    /\ sent = [i \in LogIds |-> <<>>]
    /\ sockets = [i \in ChanIds |-> 0]
    /\ disconnect_calls = 0
    /\ disconnect_reason = "Success"
    /\ disconnect_view = <<>>
    /\ t_signals = 0

StmIdle == stm_data = <<>> /\ stm_offset = 0 /\ stm_x = <<>>

\* The single-object harnesses at rest.  The empty sequence stands for an
\* object that does not exist in the specification at hand.
MoreIdle == orph = <<>> /\ xmit = <<>> /\ hs = <<>> /\ win = <<>> /\ sup = <<>>

AuxIdle == p5 = <<>> /\ tcp = <<>> /\ s5s = <<>> /\ race = <<>> /\ MoreIdle

InitCodec ==
    /\ SessIdle
    /\ StmIdle
    /\ AuxIdle
    /\ frames_in \in SeqsUpTo(HarnessFrames, MaxFrames)
    /\ stream = EncodeAll(frames_in)
    /\ fed = 0
    /\ m_buffer = <<>>
    /\ decoded = <<>>
    /\ codec_err = FALSE
    /\ cut_header = FALSE
    /\ cut_payload = FALSE
    /\ multi_frame = FALSE

\* One FrameCodec::Feed call on the next n bytes of the stream.
FeedChunk(n) ==
    /\ fed + n <= Len(stream)
    /\ LET r   == Feed(m_buffer, SubSeq(stream, fed + 1, fed + n))
           pos == fed + n
       IN  /\ m_buffer' = r.buf
           /\ decoded' = decoded \o r.frames
           /\ codec_err' = (codec_err \/ r.err)
           /\ fed' = pos
           /\ cut_header' = (cut_header \/
                  \E i \in 1..Len(frames_in) :
                      /\ FrameStart(frames_in, i) < pos
                      /\ pos < FrameStart(frames_in, i) + FRAME_HEADER_SIZE)
           /\ cut_payload' = (cut_payload \/
                  \E i \in 1..Len(frames_in) :
                      /\ FrameStart(frames_in, i) + FRAME_HEADER_SIZE < pos
                      /\ pos < FrameEnd(frames_in, i))
           /\ multi_frame' = (multi_frame \/ Len(r.frames) >= 2)
    /\ UNCHANGED <<frames_in, stream>>
    /\ UNCHANGED <<sessVars, stmVars, auxVars>>

NextCodec == \E n \in 1..(Len(stream) - fed) : FeedChunk(n)

SpecCodec == InitCodec /\ [][NextCodec]_vars

\* The (type, flags, channel_id, payload) of a decoded frame.
Decoded4(fr) ==
    [type |-> fr.header.type, flags |-> fr.header.flags,
     channel_id |-> fr.header.channel_id, payload |-> fr.payload]

\* The frames of fs whose last byte lies within the first n bytes of the stream.
CompleteUpTo(fs, n) ==
    LET k == Cardinality({i \in 1..Len(fs) : FrameEnd(fs, i) <= n})
    IN  SubSeq(fs, 1, k)

\* C1: for every sequence of valid frames, encoded and concatenated, and every
\* partition of the bytes into Feed calls, the frames emitted so far are exactly
\* the frames completed by the bytes fed so far, in order and with the same
\* type, flags, channel_id and payload; once all bytes are fed this is F1..Fn,
\* nothing is left in the accumulation buffer and no error was reported.
C1_FeedRoundTrip ==
    /\ [i \in 1..Len(decoded) |-> Decoded4(decoded[i])] = CompleteUpTo(frames_in, fed)
    /\ ~codec_err
    /\ fed = Len(stream) => (Len(decoded) = Len(frames_in) /\ m_buffer = <<>>)

\* Two frames, the second with a full payload, completely fed through chunks
\* that cut a header, cut a payload and held more than one frame.
C1_Witness ==
    /\ fed = Len(stream)
    /\ Len(frames_in) = MaxFrames
    /\ Len(frames_in[MaxFrames].payload) = FRAME_MAX_PAYLOAD
    /\ frames_in[1].channel_id = 258
    /\ cut_header /\ cut_payload /\ multi_frame
    /\ Len(decoded) = MaxFrames

\* ------------------------------------------------------- session harness

\* The session record of the current state.
Sess ==
    [m_running |-> m_running, m_on_disconnect |-> m_on_disconnect,
     m_keepalive_timer |-> m_keepalive_timer, m_keepalive_ms |-> KeepaliveMs,
     m_channel_window_size |-> ChannelWindowSize,
     m_channels |-> m_channels, m_codec |-> m_buffer,
     t_connected |-> t_connected, t_recv_pending |-> t_recv_pending,
     sent |-> sent, sockets |-> sockets,
     disconnect_calls |-> disconnect_calls, disconnect_reason |-> disconnect_reason,
     disconnect_view |-> disconnect_view,
     t_signals |-> t_signals]

\* The next state holds the session record T.
SetFields(T) ==
    /\ m_running' = T.m_running
    /\ m_on_disconnect' = T.m_on_disconnect
    /\ m_keepalive_timer' = T.m_keepalive_timer
    /\ m_channels' = T.m_channels
    /\ m_buffer' = T.m_codec
    /\ t_connected' = T.t_connected
    /\ t_recv_pending' = T.t_recv_pending
    /\ sent' = T.sent
    /\ sockets' = T.sockets
    /\ disconnect_calls' = T.disconnect_calls
    /\ disconnect_reason' = T.disconnect_reason
    /\ disconnect_view' = T.disconnect_view
    /\ t_signals' = T.t_signals
    /\ UNCHANGED <<frames_in, stream, fed, decoded, codec_err,
                   cut_header, cut_payload, multi_frame>>
    /\ UNCHANGED <<stmVars, auxVars>>

\* The next state holds the session record that E evaluates to.
SetSess(E) == \E T \in {E} : SetFields(T)

\* SOCKS5 bytes the peer puts into CHANNEL_REQUEST payloads: whole messages,
\* pieces of them, and malformed ones.
MethodOk == <<5, 1, 0>>
MethodNoAuthAbsent == <<5, 1, 2>>
MethodBadVersion == <<4, 1, 0>>
ConnectIPv4 == <<5, 1, 0, 1, 10, 0, 0, 1, 0, 80>>
ConnectBadAtyp == <<5, 1, 0, 9>>
ConnectBadVersion == <<4, 1, 0, 1>>
BindIPv4 == <<5, 2, 0, 1, 10, 0, 0, 1, 0, 80>>

ReqPayloads ==
    {MethodOk, MethodNoAuthAbsent, MethodBadVersion, <<5, 1>>, <<0>>,
     ConnectIPv4, SubSeq(ConnectIPv4, 1, 4), SubSeq(ConnectIPv4, 5, 10),
     ConnectBadAtyp, ConnectBadVersion, MethodOk \o ConnectIPv4, BindIPv4}

DataPayloads == {<<1>>, <<1, 2>>}

\* Buffers a target delivers: one byte, and one byte more than a frame holds.
TargetBuffers == {<<21>>, [i \in 1..(FRAME_MAX_PAYLOAD + 1) |-> 30 + i]}

WindowUpdatePayloads == {LE32(1), LE32(3), <<1, 0>>, <<2, 0, 0, 0, 9>>}

\* Frames the peer sends for channel id: every kind of channel frame, with
\* the given CHANNEL_REQUEST, DATA and WINDOW_UPDATE payloads.
PeerFrames(id, reqs, datas, updates) ==
    {Encode(FT_ChannelOpen, 0, id, <<>>),
     Encode(FT_ChannelClose, FRAME_FLAG_FIN, id, <<>>),
     Encode(FT_ChannelCloseAck, 0, id, <<>>)}
    \cup {Encode(FT_ChannelRequest, 0, id, p) : p \in reqs}
    \cup {Encode(FT_Data, 0, id, p) : p \in datas}
    \cup {Encode(FT_WindowUpdate, 0, id, p) : p \in updates}

\* A frame header that announces one payload byte more than a frame may carry.
OversizeHeader == <<FT_Data, 0>> \o LE16(258) \o LE32(FRAME_MAX_PAYLOAD + 1)

\* What FrameCodec::Feed hands back to its caller: the function returns void,
\* the caller sees the frames appended to out_frames and nothing else.
FeedOutput(buf, data) == Feed(buf, data).frames

\* Frames that belong to no channel: PING, and a frame of an unknown type;
\* and the header of a frame that is too large.
SessionFrames == {Encode(FT_Ping, 0, 0, <<>>), Encode(11, 0, 0, <<>>), OversizeHeader}

\* The peer of Spec: two channels with one good and one bad SOCKS5 request.
InFrames ==
    UNION {PeerFrames(id, {MethodOk \o ConnectIPv4, MethodBadVersion}, {<<1>>}, {LE32(1)}) :
              id \in ChanIds}
    \cup SessionFrames

\* The peer of SpecChannel: the full repertoire on channel 258, beside a
\* second channel that fails its handshake.
ChannelFrames ==
    PeerFrames(258, ReqPayloads, DataPayloads, WindowUpdatePayloads)
    \cup PeerFrames(1, {MethodNoAuthAbsent}, {}, {})

\* What the operating system may answer inside the handler of frame d: the
\* return of ConnectAsync matters to CHANNEL_REQUEST, an immediate WSASend
\* failure to DATA.
EnvsFor(d) ==
    LET ft == ReadHeader(d).type
    IN  [connect_ec : IF ft = FT_ChannelRequest THEN {"Success", "DnsResolutionFailed"}
                      ELSE {"Success"},
         send_fail  : IF ft = FT_Data THEN BOOLEAN ELSE {FALSE}]

RECURSIVE SumLen(_, _)
SumLen(f, ids) ==
    IF ids = {} THEN 0
    ELSE LET i == CHOOSE j \in ids : TRUE IN Len(f[i]) + SumLen(f, ids \ {i})

\* The environment offers input only while the logs (max_sent frames over
\* all ids), windows and queues are within the bounds.
Bounded(T, max_sent) ==
    /\ SumLen(T.sent, LogIds) <= max_sent
    /\ \A i \in DOMAIN T.m_channels :
          /\ T.m_channels[i].m_send_window <= WindowCap
          /\ Len(T.m_channels[i].m_target.m_send_queue) <= MaxQueue
          /\ Len(T.m_channels[i].m_socks5_buf) <= MaxSocksPending

\* The codec harness at rest; m_buffer is then the session's own m_codec.
CodecIdle ==
    /\ frames_in = <<>> /\ stream = <<>> /\ fed = 0 /\ m_buffer = <<>>
    /\ decoded = <<>> /\ codec_err = FALSE
    /\ cut_header = FALSE /\ cut_payload = FALSE /\ multi_frame = FALSE

Init ==
    /\ CodecIdle
    /\ owner_pc = "constructed"
    /\ m_running = FALSE
    /\ m_on_disconnect = FALSE
    /\ m_keepalive_timer = FALSE
    /\ m_channels = <<>>
    /\ t_connected = TRUE
    /\ t_recv_pending = FALSE
    /\ sent = [i \in LogIds |-> <<>>]
    /\ sockets = [i \in ChanIds |-> 0]
    /\ disconnect_calls = 0
    /\ disconnect_reason = "Success"
    /\ disconnect_view = <<>>
    /\ t_signals = 0
    /\ StmIdle
    /\ AuxIdle

\* The transport invokes its m_on_disconnect, which MuxSession::Start set to
\* OnTransportDisconnected.
TransportSignal(T, ec) ==
    OnTransportDisconnected([T EXCEPT !.t_signals = @ + 1], ec)

\* SslTransport::PostRecv; wsa_fail: WSARecv fails at once.
TransportPostRecv(T, wsa_fail) ==
    IF ~T.t_connected THEN T
    ELSE IF wsa_fail THEN TransportSignal(T, "SocketError")
    ELSE [T EXCEPT !.t_recv_pending = TRUE]

\* session.Start(...) in RunSession: MuxSession::Start with the
\* SslTransport::StartReading it calls (no handshake bytes left over).
DoStart(wsa_fail) ==
    /\ owner_pc = "constructed"
    /\ owner_pc' = "waiting"
    /\ SetSess(StartKeepaliveTimer(
           TransportPostRecv([Sess EXCEPT !.m_on_disconnect = TRUE, !.m_running = TRUE],
                             wsa_fail)))

SessionAlive == owner_pc \in {"waiting", "shutdown", "closed"}

\* SslTransport::OnRecvComplete with one frame's bytes.
TransportData(data, env, wsa_fail, budget) ==
    /\ SessionAlive
    /\ t_recv_pending
    /\ \E T \in {TransportPostRecv(
                      OnDataReceived([Sess EXCEPT !.t_recv_pending = FALSE], data, env),
                      wsa_fail)} :
          Bounded(T, budget) /\ SetSess(T)
    /\ UNCHANGED owner_pc

\* SslTransport::OnRecvComplete with an error or a 0-byte read; a read aborted
\* by SslTransport::Close completes with ErrorCode::Shutdown.
TransportError(ec) ==
    /\ SessionAlive
    /\ t_recv_pending
    /\ (owner_pc = "closed") = (ec = "Shutdown")
    /\ SetSess(TransportSignal(
           [Sess EXCEPT !.t_recv_pending = FALSE, !.t_connected = FALSE],
           IF ec = "Success" THEN "SslDisconnected" ELSE ec))
    /\ UNCHANGED owner_pc

\* session.Shutdown() in RunSession.
OwnerShutdown ==
    /\ owner_pc = "waiting"
    /\ owner_pc' = "shutdown"
    /\ SetSess(Shutdown(Sess))

\* transport.Close() in RunSession.
OwnerCloseTransport ==
    /\ owner_pc = "shutdown"
    /\ owner_pc' = "closed"
    /\ SetSess([Sess EXCEPT !.t_connected = FALSE])

\* MuxSession::~MuxSession at the end of RunSession: Shutdown, then the map
\* and the channels still in it are destroyed.
RECURSIVE DestroyChannels(_)
DestroyChannels(T) ==
    IF DOMAIN T.m_channels = {} THEN T
    ELSE DestroyChannels(RemoveChannel(T, CHOOSE i \in DOMAIN T.m_channels : TRUE))

OwnerDestroy ==
    /\ owner_pc = "closed"
    /\ owner_pc' = "destroyed"
    /\ SetSess(DestroyChannels(Shutdown(Sess)))

\* The connect completion of channel id's connection.
TargetConnectDone(id, ec, wsa_fail, budget) ==
    /\ SessionAlive
    /\ id \in DOMAIN m_channels
    /\ m_channels[id].m_target.connect_pending
    /\ \E T \in {Stored(Sess, id, TargetConnectComplete(Ctx(m_channels[id]), ec, wsa_fail))} :
          Bounded(T, budget) /\ SetSess(T)
    /\ UNCHANGED owner_pc

\* A read completion of channel id's connection.
TargetRecvDone(id, bytes, ec, wsa_fail, budget) ==
    /\ SessionAlive
    /\ id \in DOMAIN m_channels
    /\ m_channels[id].m_target.recv_pending
    /\ \E T \in {Stored(Sess, id, TargetRecvComplete(Ctx(m_channels[id]), bytes, ec, wsa_fail))} :
          Bounded(T, budget) /\ SetSess(T)
    /\ UNCHANGED owner_pc

\* A send completion of channel id's connection; a send aborted by Close
\* completes with ErrorCode::Shutdown.
TargetSendDone(id, ec, wsa_fail) ==
    /\ SessionAlive
    /\ id \in DOMAIN m_channels
    /\ m_channels[id].m_target.send_pending
    /\ (m_channels[id].m_target.m_socket = "INVALID") => (ec = "Shutdown")
    /\ SetSess(Stored(Sess, id,
                      [Ctx(m_channels[id]) EXCEPT
                          !.ch.m_target = OnSendComplete(@, ec, wsa_fail)]))
    /\ UNCHANGED owner_pc

\* The timer queue runs the callback of the session's live timer.
KeepaliveTick(budget) ==
    /\ SessionAlive
    /\ m_keepalive_timer
    /\ \E T \in {KeepaliveTimerCallback(Sess)} :
          Bounded(T, budget) /\ SetSess(T)
    /\ UNCHANGED owner_pc

\* The timer queue runs the callback of a timer that has outlived its
\* session: self points at the destroyed MuxSession, so what the callback
\* reads as m_running, and what SslTransport::Send reads as m_connected behind
\* the destroyed m_transport, is whatever the memory holds by then.
KeepaliveTickDangling(budget) ==
    /\ owner_pc = "destroyed"
    /\ m_keepalive_timer
    /\ \E running, connected \in BOOLEAN :
          \E T \in {KeepaliveTimerCallback(
                       [Sess EXCEPT !.m_running = running, !.t_connected = connected])} :
              Bounded(T, budget) /\ SetSess([Sess EXCEPT !.sent = T.sent])
    /\ UNCHANGED owner_pc

Next ==
    \/ \E f \in BOOLEAN : DoStart(f)
    \/ KeepaliveTick(MaxSent)
    \/ KeepaliveTickDangling(MaxSent)
    \/ \E d \in InFrames, f \in BOOLEAN : \E e \in EnvsFor(d) : TransportData(d, e, f, MaxSent)
    \/ \E ec \in {"Success", "ConnectionReset", "Shutdown"} : TransportError(ec)
    \/ OwnerShutdown
    \/ OwnerCloseTransport
    \/ OwnerDestroy
    \/ \E id \in ChanIds, ec \in {"Success", "ConnectionRefused"}, f \in BOOLEAN :
          TargetConnectDone(id, ec, f, MaxSent)
    \/ \E id \in ChanIds, b \in {<<21>>, <<>>}, f \in BOOLEAN :
          TargetRecvDone(id, b, "Success", f, MaxSent)
    \/ \E id \in ChanIds, ec \in {"Success", "Shutdown"}, f \in BOOLEAN :
          TargetSendDone(id, ec, f)

Spec == Init /\ [][Next]_vars

\* Completions of a target's WSARecv: data, with the next WSARecv posted or
\* failing at once; a 0-byte read; an error.
RecvCompletions ==
    [bytes : TargetBuffers, ec : {"Success"}, post_fail : BOOLEAN]
    \cup {[bytes |-> <<>>, ec |-> "Success", post_fail |-> FALSE],
          [bytes |-> <<>>, ec |-> "ConnectionReset", post_fail |-> FALSE]}

\* Completions of a target's WSASend: success, with the WSASend for the next
\* queued buffer started or failing at once; an error; the abort by Close.
SendCompletions ==
    [ec : {"Success"}, flush_fail : BOOLEAN]
    \cup {[ec |-> "ConnectionReset", flush_fail |-> FALSE],
          [ec |-> "Shutdown", flush_fail |-> FALSE]}

\* The channels of a running session: the behaviours of Spec up to the moment
\* the session stops running, with the peer's full repertoire on one channel.
NextChannel ==
    \/ DoStart(FALSE)
    \/ m_running /\ \E d \in ChannelFrames : \E e \in EnvsFor(d) : TransportData(d, e, FALSE, MaxChannelSent)
    \/ m_running /\ \E id \in ChanIds, ec \in {"Success", "ConnectionRefused", "ConnectionTimeout"},
                       f \in BOOLEAN : TargetConnectDone(id, ec, f, MaxChannelSent)
    \/ m_running /\ \E id \in ChanIds, c \in RecvCompletions :
                       TargetRecvDone(id, c.bytes, c.ec, c.post_fail, MaxChannelSent)
    \/ m_running /\ \E id \in ChanIds, c \in SendCompletions :
                       TargetSendDone(id, c.ec, c.flush_fail)
    \/ m_running /\ TransportError("Success")
    \/ m_running /\ OwnerShutdown

SpecChannel == Init /\ [][NextChannel]_vars

\* ---------------------------------------------------- SendToMux harness

\* Buffers of every length up to two full frames and a byte, and send windows
\* from zero to more than the longest buffer.
StmMaxLen == 2 * FRAME_MAX_PAYLOAD + 1

StmBuffers == {[i \in 1..n |-> (3 * i) % 256] : n \in 1..StmMaxLen}

StmWindows == 0..(StmMaxLen + 1)

InitSendToMux ==
    /\ CodecIdle
    /\ SessIdle
    /\ AuxIdle
    /\ stm_data \in StmBuffers
    /\ stm_offset = 0
    /\ \E w \in StmWindows :
          stm_x = Ctx([NewChannel(258, w) EXCEPT !.m_state = "Relaying"])

\* One pass of the while loop of Channel::SendToMux.
SendToMuxLoop ==
    /\ stm_offset < Len(stm_data)
    /\ LET p == SendToMuxPass(stm_x, stm_data, stm_offset)
       IN  stm_x' = p.x /\ stm_offset' = p.offset
    /\ UNCHANGED <<stm_data, codecVars, sessVars, auxVars>>

NextSendToMux == SendToMuxLoop

SpecSendToMux == InitSendToMux /\ [][NextSendToMux]_vars

\* The payloads of a sequence of encoded frames.
PayloadsOf(frames) == [i \in 1..Len(frames) |-> PayloadOf(frames[i])]

\* C10: for every buffer and every send window, each pass of SendToMux's loop
\* sends one DATA frame for the channel's id with a payload of 1..65536 bytes
\* (here FRAME_MAX_PAYLOAD); the payloads sent so far, concatenated, are the
\* bytes of the buffer up to offset, so the loop ends after at most Len(buffer)
\* passes with exactly the buffer sent; and a whole SendToMux call from any
\* point of the loop completes the buffer.
C10_SendToMuxChunks ==
    /\ stm_offset <= Len(stm_data)
    /\ Flatten(PayloadsOf(stm_x.out)) = SubSeq(stm_data, 1, stm_offset)
    /\ Len(stm_x.out) <= Len(stm_data)
    /\ \A i \in 1..Len(stm_x.out) :
          /\ HeaderOf(stm_x.out[i]) =
                [type |-> FT_Data, flags |-> 0, channel_id |-> stm_x.ch.m_id,
                 payload_length |-> Len(stm_x.out[i]) - FRAME_HEADER_SIZE]
          /\ Len(PayloadOf(stm_x.out[i])) \in 1..FRAME_MAX_PAYLOAD
    /\ Flatten(PayloadsOf(SendToMuxFrom(stm_x, stm_data, stm_offset).out)) = stm_data

C10_Witness ==
    /\ Len(stm_data) = StmMaxLen
    /\ stm_offset = Len(stm_data)
    /\ Len(stm_x.out) = 3
    /\ stm_x.ch.m_send_window = 0
    /\ Len(PayloadOf(stm_x.out[1])) = FRAME_MAX_PAYLOAD
    /\ Len(PayloadOf(stm_x.out[2])) = 1
    /\ Len(PayloadOf(stm_x.out[3])) = FRAME_MAX_PAYLOAD

\* ------------------------------------------------------------- properties

\* Reading the log of sent frames.
TypeAt(log, i) == HeaderOf(log[i].frame).type
FlagsAt(log, i) == HeaderOf(log[i].frame).flags
PayloadAt(log, i) == PayloadOf(log[i].frame)

\* Frame bytes are a frame of the given type, flags and id with this payload.
IsFrame(bytes, type, flags, id, payload) ==
    /\ Len(bytes) = FRAME_HEADER_SIZE + Len(payload)
    /\ HeaderOf(bytes) = [type |-> type, flags |-> flags, channel_id |-> id,
                          payload_length |-> Len(payload)]
    /\ PayloadOf(bytes) = payload

\* Sum of the increments of the WINDOW_UPDATE frames, and of the payload
\* lengths of the DATA frames, in a log.
RECURSIVE SumUpdates(_)
SumUpdates(log) ==
    IF log = <<>> THEN 0
    ELSE (IF TypeAt(log, 1) = FT_WindowUpdate THEN FromLE32(PayloadAt(log, 1)) ELSE 0)
         + SumUpdates(Tail(log))

RECURSIVE DataBytes(_)
DataBytes(log) ==
    IF log = <<>> THEN 0
    ELSE (IF TypeAt(log, 1) = FT_Data THEN Len(PayloadAt(log, 1)) ELSE 0)
         + DataBytes(Tail(log))

\* C2: a DATA frame of n bytes handled by a channel in Relaying raises
\* recv_consumed by n; if that reaches recv_window_initial / 2 the channel sends
\* exactly one WINDOW_UPDATE for its id with the value reached as increment,
\* adds it to recv_window and zeroes recv_consumed, and otherwise sends nothing.
\* So the increments sent plus recv_consumed are the DATA bytes accepted, and
\* recv_window is its initial value plus the increments sent.
C2_WindowUpdate ==
    \A id \in DOMAIN m_channels :
        LET ch == m_channels[id]
        IN  /\ SumUpdates(sent[id]) + ch.m_recv_consumed = ch.h_accepted
            /\ ch.m_recv_window = U32(ch.m_recv_window_initial + SumUpdates(sent[id]))
            /\ ch.m_state = "Relaying" =>
                  \A data \in DataPayloads, f \in BOOLEAN :
                      LET x == OnData(Ctx(ch), data, f)
                          c == ch.m_recv_consumed + Len(data)
                      IN  /\ x.ch.h_accepted = ch.h_accepted + Len(data)
                          /\ IF c >= ch.m_recv_window_initial \div 2
                             THEN /\ Len(x.out) = 1
                                  /\ IsFrame(x.out[1], 10, 0, id,
                                             <<c % 256, (c \div 256) % 256, 0, 0>>)
                                  /\ x.ch.m_recv_window = U32(ch.m_recv_window + c)
                                  /\ x.ch.m_recv_consumed = 0
                             ELSE /\ x.out = <<>>
                                  /\ x.ch.m_recv_window = ch.m_recv_window
                                  /\ x.ch.m_recv_consumed = c

C2_Witness ==
    /\ 258 \in DOMAIN m_channels
    /\ m_channels[258].m_state = "Relaying"
    /\ m_channels[258].h_accepted = 3
    /\ m_channels[258].m_recv_consumed = 1
    /\ Len(sent[258]) = 4
    /\ IsFrame(sent[258][4].frame, FT_WindowUpdate, 0, 258, <<2, 0, 0, 0>>)

\* What the operating system answers when nothing goes wrong.
EnvOk == [connect_ec |-> "Success", send_fail |-> FALSE]

\* The session after the transport has delivered CHANNEL_CLOSE_ACK(id).
AfterCloseAck(id) == OnDataReceived(Sess, Encode(FT_ChannelCloseAck, 0, id, <<>>), EnvOk)

\* C3: the registry maps an id to the one channel of that id, and the only
\* open socket made for an id is the one of the channel registered under it;
\* once CHANNEL_CLOSE_ACK(id) is processed, in whatever state the channel was,
\* the id is absent and no socket made for it is open, the other channels are
\* as before and no frame is sent; for an id that is not registered the frame
\* changes nothing.
C3_RegistryConsistent ==
    /\ DOMAIN m_channels \subseteq ChanIds
    /\ \A id \in DOMAIN m_channels : m_channels[id].m_id = id
    /\ \A id \in ChanIds :
          sockets[id] = IF id \in DOMAIN m_channels
                           /\ m_channels[id].m_target.exists
                           /\ m_channels[id].m_target.m_socket = "open"
                        THEN 1 ELSE 0
    /\ \A id \in ChanIds :
          LET T == AfterCloseAck(id)
          IN  /\ id \notin DOMAIN T.m_channels
              /\ T.sockets[id] = 0
              /\ T.sent = sent
              /\ DOMAIN T.m_channels = (DOMAIN m_channels) \ {id}
              /\ \A j \in DOMAIN T.m_channels :
                    T.m_channels[j] = m_channels[j] /\ T.sockets[j] = sockets[j]
              /\ id \notin DOMAIN m_channels => T = Sess

C3_Witness ==
    /\ DOMAIN m_channels = ChanIds
    /\ m_channels[258].m_state = "Relaying"
    /\ sockets[258] = 1
    /\ m_channels[1].m_state = "Requesting"
    /\ AfterCloseAck(258).sockets = [i \in ChanIds |-> 0]
    /\ DOMAIN AfterCloseAck(258).m_channels = {1}

\* C4 as stated: by the time a started session is destroyed its disconnect
\* callback has been invoked exactly once.
C4_ExactlyOnce ==
    /\ disconnect_calls <= 1
    /\ owner_pc = "destroyed" => disconnect_calls = 1

\* C4, amended: the disconnect callback is invoked once for every disconnect
\* the transport signals, and the transport signals at most one; Shutdown
\* and destruction never invoke it, so a session that is shut down and
\* destroyed before the transport signals never has its callback invoked.
C4_OncePerTransportSignal ==
    /\ disconnect_calls = t_signals
    /\ t_signals <= 1
    /\ t_signals = 1 => ~m_running /\ ~t_recv_pending /\ m_channels = <<>>

C4_Witness ==
    /\ owner_pc = "destroyed"
    /\ disconnect_calls = 1
    /\ disconnect_reason = "Shutdown"
    /\ Len(sent[258]) >= 3

\* C5: a second ForceClose on a channel, the ForceClose its destructor makes
\* after one, a second Close on its connection and a second Shutdown on the
\* session change nothing, send nothing and close nothing beyond the first;
\* Shutdown on a session that is not running, as after a transport
\* disconnect, changes nothing at all.
C5_IdempotentClose ==
    /\ \A id \in DOMAIN m_channels :
          LET x1 == ForceClose(Ctx(m_channels[id]))
              c1 == CloseTarget(Ctx(m_channels[id]))
          IN  /\ ForceClose(x1) = x1
              /\ DestroyChannel(x1) = x1
              /\ CloseTarget(c1) = c1
              /\ x1.out = <<>>
    /\ Shutdown(Shutdown(Sess)) = Shutdown(Sess)
    /\ Shutdown(Sess).sent = sent
    /\ Shutdown(Sess).disconnect_calls = disconnect_calls
    /\ ~m_running => Shutdown(Sess) = Sess
    /\ t_signals > 0 => Shutdown(Sess) = Sess

C5_Witness ==
    /\ m_running
    /\ DOMAIN m_channels = ChanIds
    /\ m_channels[258].m_state = "Relaying"
    /\ m_channels[258].m_target.m_send_queue # <<>>
    /\ sockets[258] = 1
    /\ Shutdown(Sess).sockets[258] = 0
    /\ Shutdown(Sess).m_channels = <<>>

\* The SOCKS5 replies of the claims, byte by byte.
MethodAccepted == <<5, 0>>
MethodRefused == <<5, 255>>
ConnectReply(rep) == <<5, rep, 0, 1, 0, 0, 0, 0, 0, 0>>

\* Positions of the CHANNEL_REQUEST_ACK frames, and of the success reply, in a log.
AckPositions(log) == {i \in 1..Len(log) : TypeAt(log, i) = FT_ChannelRequestAck}
SuccessPositions(log) == {i \in AckPositions(log) : PayloadAt(log, i) = ConnectReply(0)}

\* C6: the frames sent for an id since its CHANNEL_OPEN reach the transport
\* and come in this order: CHANNEL_OPEN_ACK first and only first; then at
\* most two CHANNEL_REQUEST_ACK, the first a method response, the second, only
\* after [05 00], a CONNECT reply; every DATA frame after the success reply
\* [05 00 00 01 00 00 00 00 00 00].  A channel is in Relaying only with its
\* success reply sent and is past Connecting as soon as it is sent.
C6_FrameOrder ==
    \A id \in ChanIds :
        LET log == sent[id]
        IN  /\ \A i \in 1..Len(log) :
                  /\ log[i].wire
                  /\ HeaderOf(log[i].frame).channel_id = id
                  /\ TypeAt(log, i) = FT_ChannelOpenAck => i = 1
                  /\ TypeAt(log, i) # FT_ChannelCloseAck => TypeAt(log, 1) = FT_ChannelOpenAck
                  /\ TypeAt(log, i) = FT_Data => \E j \in SuccessPositions(log) : j < i
            /\ Cardinality(AckPositions(log)) <= 2
            /\ \A i \in AckPositions(log) :
                  IF \E j \in AckPositions(log) : j < i
                  THEN /\ i = 3
                       /\ PayloadAt(log, 2) = MethodAccepted
                       /\ \E rep \in 0..255 : PayloadAt(log, i) = ConnectReply(rep)
                  ELSE /\ i = 2
                       /\ PayloadAt(log, i) \in {MethodAccepted, MethodRefused}
            /\ id \in DOMAIN m_channels =>
                  /\ m_channels[id].m_state = "Relaying" => SuccessPositions(log) # {}
                  /\ m_channels[id].m_state \in {"Opening", "Requesting", "Connecting"}
                        => SuccessPositions(log) = {}

C6_Witness ==
    /\ 258 \in DOMAIN m_channels
    /\ m_channels[258].m_state = "Relaying"
    /\ Len(sent[258]) = 5
    /\ IsFrame(sent[258][1].frame, FT_ChannelOpenAck, 0, 258, <<>>)
    /\ IsFrame(sent[258][2].frame, FT_ChannelRequestAck, 0, 258, MethodAccepted)
    /\ IsFrame(sent[258][3].frame, FT_ChannelRequestAck, 0, 258, ConnectReply(0))
    /\ IsFrame(sent[258][4].frame, FT_Data, 0, 258, <<21>>)
    /\ IsFrame(sent[258][5].frame, FT_WindowUpdate, 0, 258, <<2, 0, 0, 0>>)

\* A handler run x that fails the channel: after the frames in `before` it
\* sends one CHANNEL_REQUEST_ACK with `reply` and one CHANNEL_CLOSE(RST),
\* leaves the channel Closed without a connection and no socket open.
FailsWith(x, id, before, reply) ==
    /\ Len(x.out) = Len(before) + 2
    /\ SubSeq(x.out, 1, Len(before)) = before
    /\ IsFrame(x.out[Len(before) + 1], FT_ChannelRequestAck, 0, id, reply)
    /\ IsFrame(x.out[Len(before) + 2], FT_ChannelClose, 2, id, <<>>)
    /\ x.ch.m_state = "Closed"
    /\ ~x.ch.m_target.exists
    /\ x.opened = x.closed

\* The log of an id ends a failed handshake or connect: reply at position i,
\* CHANNEL_CLOSE(RST) next, and after it nothing but CHANNEL_CLOSE_ACK.
EndsFailed(log, i) ==
    /\ i < Len(log)
    /\ TypeAt(log, i + 1) = FT_ChannelClose /\ FlagsAt(log, i + 1) = 2
    /\ PayloadAt(log, i + 1) = <<>>
    /\ \A j \in (i + 2)..Len(log) : TypeAt(log, j) = FT_ChannelCloseAck
    /\ Cardinality({j \in 1..Len(log) : TypeAt(log, j) = FT_ChannelClose}) = 1

\* C7: a CHANNEL_REQUEST that makes the handshake of a channel in Requesting
\* fail is answered by exactly one CHANNEL_REQUEST_ACK and one
\* CHANNEL_CLOSE(RST), leaves the channel Closed and opens no socket: the
\* reply is [05 FF] if the method request is malformed or lacks NO_AUTH, and
\* the general-failure reply (code 1) if the CONNECT request is malformed,
\* then after [05 00] when the method request came in the same frame.  In the
\* log of an id a failure reply is followed by CHANNEL_CLOSE(RST) and by no
\* further frame of the channel, which is Closed and owns no socket.
C7_HandshakeFailure ==
    /\ \A id \in DOMAIN m_channels : \A p \in ReqPayloads :
          \A ec \in {"Success", "DnsResolutionFailed"} :
              LET ch   == m_channels[id]
                  buf  == ch.m_socks5_buf \o p
                  x    == OnRequest(Ctx(ch), p, ec)
                  m    == ParseMethodRequest(buf)
                  ack  == IF ch.m_method_done THEN <<>>
                          ELSE <<Encode(FT_ChannelRequestAck, 0, id, MethodAccepted)>>
                  rest == IF ch.m_method_done THEN buf
                          ELSE SubSeq(buf, m.consumed + 1, Len(buf))
              IN  ch.m_state = "Requesting" =>
                      IF ~ch.m_method_done /\ m.consumed = 0 THEN x.out = <<>>
                      ELSE IF ~ch.m_method_done /\ (m.consumed < 0 \/ ~m.supports_no_auth)
                      THEN FailsWith(x, id, <<>>, MethodRefused)
                      ELSE rest # <<>> /\ ParseConnectRequest(rest, ch.m_connect_req).consumed < 0
                              => FailsWith(x, id, ack, ConnectReply(1))
    /\ \A id \in ChanIds : \A i \in AckPositions(sent[id]) :
          PayloadAt(sent[id], i) \in {MethodRefused, ConnectReply(1)} =>
              /\ EndsFailed(sent[id], i)
              /\ sockets[id] = 0
              /\ id \in DOMAIN m_channels =>
                    m_channels[id].m_state = "Closed" /\ ~m_channels[id].m_target.exists

C7_Witness ==
    /\ DOMAIN m_channels = ChanIds
    /\ m_channels[258].m_state = "Closed"
    /\ m_channels[258].m_socks5_buf = ConnectBadAtyp
    /\ Len(sent[258]) = 4
    /\ IsFrame(sent[258][2].frame, FT_ChannelRequestAck, 0, 258, MethodAccepted)
    /\ IsFrame(sent[258][3].frame, FT_ChannelRequestAck, 0, 258, ConnectReply(1))
    /\ IsFrame(sent[258][4].frame, FT_ChannelClose, 2, 258, <<>>)
    /\ sockets[258] = 0
    /\ m_channels[1].m_state = "Requesting"

\* The reply code the claim gives for a connect error.
ReplyCodeFor(ec) ==
    IF ec = "ConnectionRefused" THEN 5
    ELSE IF ec = "HostUnreachable" THEN 4
    ELSE IF ec = "NetworkUnreachable" THEN 3
    ELSE IF ec = "ConnectionTimeout" THEN 6
    ELSE 1

\* C8: a connect that fails with error ec, reported by the completion of a
\* channel in Connecting or returned at once by ConnectAsync to a channel
\* whose request has just been parsed, is answered by exactly one
\* CHANNEL_REQUEST_ACK with [05 rep 00 01 00 00 00 00 00 00], rep = 5 for
\* refused, 4 for host unreachable, 3 for network unreachable, 6 for timeout,
\* 1 otherwise, then one CHANNEL_CLOSE(RST); the channel is Closed, owns no
\* connection, and the socket it had opened is closed.  In the log of an id a
\* failure reply is followed by CHANNEL_CLOSE(RST) and no further frame of
\* the channel.
C8_ConnectFailure ==
    /\ \A id \in DOMAIN m_channels : \A ec \in ConnectErrors :
          LET ch == m_channels[id]
          IN  /\ ch.m_state = "Connecting" /\ ch.m_target.connect_pending =>
                    \A f \in BOOLEAN :
                        LET x == TargetConnectComplete(Ctx(ch), ec, f)
                        IN  /\ FailsWith([x EXCEPT !.closed = 0], id, <<>>,
                                         ConnectReply(ReplyCodeFor(ec)))
                            /\ x.closed = 1 /\ x.opened = 0
              /\ ch.m_state = "Requesting" =>
                    \A p \in ReqPayloads :
                        LET ok == OnRequest(Ctx(ch), p, "Success")
                        IN  ok.ch.m_state = "Connecting" =>
                                /\ FailsWith(OnRequest(Ctx(ch), p, ec), id, ok.out,
                                             ConnectReply(ReplyCodeFor(ec)))
                                /\ OnRequest(Ctx(ch), p, ec).opened = 0
    /\ \A id \in ChanIds : \A i \in AckPositions(sent[id]) :
          (i = 3 /\ PayloadAt(sent[id], i) # ConnectReply(0)) =>
              /\ \E ec \in ConnectErrors :
                    PayloadAt(sent[id], i) = ConnectReply(ReplyCodeFor(ec))
              /\ EndsFailed(sent[id], i)
              /\ sockets[id] = 0
              /\ id \in DOMAIN m_channels =>
                    m_channels[id].m_state = "Closed" /\ ~m_channels[id].m_target.exists

C8_Witness ==
    /\ 258 \in DOMAIN m_channels
    /\ m_channels[258].m_state = "Closed"
    /\ m_channels[258].m_socks5_buf = <<>>
    /\ m_channels[258].m_connect_req.host = <<10, 0, 0, 1>>
    /\ ~m_channels[258].m_target.exists
    /\ sockets[258] = 0
    /\ Len(sent[258]) = 4
    /\ IsFrame(sent[258][3].frame, FT_ChannelRequestAck, 0, 258, ConnectReply(6))
    /\ IsFrame(sent[258][4].frame, FT_ChannelClose, 2, 258, <<>>)

\* C9 as stated: the DATA payload bytes a channel has sent never exceed its
\* initial window plus the WINDOW_UPDATE increments it has received, and a
\* channel whose send window is zero sends no DATA for a buffer of its target.
C9_WithinWindow ==
    \A id \in DOMAIN m_channels :
        LET ch == m_channels[id]
        IN  /\ DataBytes(sent[id]) <= ChannelWindowSize + ch.h_credit
            /\ (ch.m_state = "Relaying" /\ ch.m_send_window = 0) =>
                  \A b \in TargetBuffers : OnTargetData(Ctx(ch), b).out = <<>>

\* The session after the transport has delivered CHANNEL_CLOSE(id) with the
\* given flags, and after it has delivered the same frame followed, in the
\* same read, by a CHANNEL_REQUEST for the id.
AfterClose(id, flags) == OnDataReceived(Sess, Encode(FT_ChannelClose, flags, id, <<>>), EnvOk)
AfterCloseThenRequest(id, flags) ==
    OnDataReceived(Sess, Encode(FT_ChannelClose, flags, id, <<>>)
                         \o Encode(FT_ChannelRequest, 0, id, MethodOk), EnvOk)

\* C11: while the session is running, a CHANNEL_CLOSE(id) with any flags is
\* answered by exactly one CHANNEL_CLOSE_ACK(id) handed to the transport and
\* by no other frame, whether or not id is registered; a channel registered
\* under id, in whatever state, is Closed by OnClose with its connection
\* closed and released, is out of the registry when the next frame of the same
\* read is dispatched, and no socket made for it stays open; the other
\* channels are untouched.
C11_CloseAcked ==
    m_running =>
        \A id \in ChanIds, flags \in {0, FRAME_FLAG_FIN, FRAME_FLAG_RST} :
            LET T == AfterClose(id, flags)
            IN  /\ T.sent[id] = Append(sent[id],
                                       [frame |-> Encode(FT_ChannelCloseAck, 0, id, <<>>),
                                        wire |-> TRUE])
                /\ \A j \in LogIds \ {id} : T.sent[j] = sent[j]
                /\ T.m_running
                /\ DOMAIN T.m_channels = (DOMAIN m_channels) \ {id}
                /\ T.sockets[id] = 0
                /\ \A j \in DOMAIN T.m_channels :
                      T.m_channels[j] = m_channels[j] /\ T.sockets[j] = sockets[j]
                /\ AfterCloseThenRequest(id, flags) = T
                /\ id \in DOMAIN m_channels =>
                      LET x == OnClose(Ctx(m_channels[id]), flags)
                      IN  /\ x.ch.m_state = "Closed"
                          /\ ~x.ch.m_target.exists
                          /\ x.closed = sockets[id]

\* A channel that was relaying has been closed by the peer: its log ends with
\* the CHANNEL_CLOSE_ACK, it is gone and its socket is closed.
C11_Witness ==
    /\ m_running
    /\ 258 \notin DOMAIN m_channels
    /\ sockets[258] = 0
    /\ Len(sent[258]) = 4
    /\ IsFrame(sent[258][3].frame, FT_ChannelRequestAck, 0, 258, ConnectReply(0))
    /\ IsFrame(sent[258][4].frame, FT_ChannelCloseAck, 0, 258, <<>>)
    /\ sent[258][4].wire

\* C12: a DATA frame for an id that is not registered, or whose channel is
\* not in Relaying, leaves the whole session as it was: no byte is queued for
\* a target, recv_consumed and recv_window keep their values, no frame is
\* sent and no state changes.  A CHANNEL_REQUEST for a channel that is not in
\* Requesting leaves the whole session as it was too: SOCKS5 buffer, state and
\* connection unchanged, no frame sent, whatever ConnectAsync would return.
C12_WrongStateDropped ==
    /\ \A id \in ChanIds, p \in DataPayloads, f \in BOOLEAN :
          (id \notin DOMAIN m_channels \/ m_channels[id].m_state # "Relaying") =>
              OnDataReceived(Sess, Encode(FT_Data, 0, id, p),
                             [connect_ec |-> "Success", send_fail |-> f]) = Sess
    /\ \A id \in DOMAIN m_channels, p \in ReqPayloads,
          ec \in {"Success", "DnsResolutionFailed"} :
          m_channels[id].m_state # "Requesting" =>
              OnDataReceived(Sess, Encode(FT_ChannelRequest, 0, id, p),
                             [connect_ec |-> ec, send_fail |-> FALSE]) = Sess

\* A running session with one channel waiting for its connect and the other
\* for its SOCKS5 request, and a read of the transport under way.
C12_Witness ==
    /\ m_running
    /\ DOMAIN m_channels = ChanIds
    /\ m_channels[258].m_state = "Connecting"
    /\ m_channels[258].m_target.connect_pending
    /\ m_channels[1].m_state = "Requesting"
    /\ t_recv_pending

\* C13: in every reachable state a registered channel in Relaying owns a
\* connection object that is connected, with its socket open, and a
\* registered channel in Closed owns no connection object and has no socket
\* open.
C13_StateOwnsTcp ==
    \A id \in DOMAIN m_channels :
        LET ch == m_channels[id]
        IN  /\ ch.m_state = "Relaying" =>
                  /\ ch.m_target.exists
                  /\ ch.m_target.m_connected
                  /\ ch.m_target.m_socket = "open"
                  /\ sockets[id] = 1
            /\ ch.m_state = "Closed" =>
                  /\ ~ch.m_target.exists
                  /\ sockets[id] = 0

\* A channel whose connect was refused: it had a connection, has sent the
\* refusal and CHANNEL_CLOSE(RST), and sits Closed in the registry.
C13_Witness ==
    /\ 258 \in DOMAIN m_channels
    /\ m_channels[258].m_state = "Closed"
    /\ m_channels[258].m_method_done
    /\ ~m_channels[258].m_target.exists
    /\ Len(sent[258]) = 4
    /\ IsFrame(sent[258][3].frame, FT_ChannelRequestAck, 0, 258, ConnectReply(5))

\* Byte sequences given to Feed: the oversize header alone, followed by a
\* byte, and behind a whole frame; a whole frame; a piece of a header; nothing.
CodecInputs ==
    {OversizeHeader, OversizeHeader \o <<7>>,
     Encode(FT_Ping, 0, 0, <<>>) \o OversizeHeader,
     Encode(FT_Ping, 0, 0, <<>>), SubSeq(OversizeHeader, 1, 5), <<>>}

\* C14 as stated: a Feed call that meets a header with payload_length above
\* 65536 (here FRAME_MAX_PAYLOAD) leaves the accumulation buffer empty and
\* hands its caller an indication of the error, that is, something a call
\* without such a header does not hand back.
C14_OverflowReported ==
    \A d \in CodecInputs :
        Feed(m_buffer, d).err =>
            /\ Feed(m_buffer, d).buf = <<>>
            /\ \A e \in CodecInputs :
                  ~Feed(m_buffer, e).err => FeedOutput(m_buffer, e) # FeedOutput(m_buffer, d)

\* C15 as stated: a header with payload_length above 65536 arriving from the
\* transport ends the session: it stops running, its channels are closed and
\* gone, and no frame that follows, in the same read or a later one, is
\* dispatched.
C15_OverflowFatal ==
    m_running =>
        \E T \in {OnDataReceived(Sess, OversizeHeader, EnvOk)} :
            /\ ~T.m_running
            /\ T.m_channels = <<>>
            /\ \A d \in InFrames : \A e \in EnvsFor(d) :
                  /\ OnDataReceived(T, d, e) = T
                  /\ OnDataReceived(Sess, OversizeHeader \o d, e) = T

\* Error codes a transport hands to its disconnect callback.
DisconnectErrors == {"SslDisconnected", "ConnectionReset", "SocketError", "Shutdown"}

\* The view of a callback that runs on a session already torn down.
TornDown ==
    [m_running |-> FALSE, m_keepalive_timer |-> FALSE, channels |-> {},
     open_sockets |-> {}]

\* C16: when the transport signals disconnect with error e on a running
\* session, the session is afterwards not running, its keepalive timer is
\* stopped, every channel of the registry has been force-closed (state Closed,
\* its connection closed and released, its socket closed), the registry is
\* empty, nothing was sent, and the callback has been invoked once more, with
\* e, finding the session in that torn-down condition.
C16_DisconnectTeardown ==
    /\ m_running =>
          \A ec \in DisconnectErrors :
              \E T \in {TransportSignal(Sess, ec)} :
                  /\ ~T.m_running
                  /\ ~T.m_keepalive_timer
                  /\ T.m_channels = <<>>
                  /\ \A i \in ChanIds : T.sockets[i] = 0
                  /\ T.sent = sent
                  /\ T.disconnect_calls = disconnect_calls + 1
                  /\ T.disconnect_reason = ec
                  /\ T.disconnect_view = <<TornDown>>
    /\ m_running =>
          \A id \in DOMAIN m_channels :
              \E x \in {ForceClose(Ctx(m_channels[id]))} :
                  /\ x.ch.m_state = "Closed"
                  /\ ~x.ch.m_target.exists
                  /\ x.opened = 0
                  /\ x.closed = sockets[id]
    /\ disconnect_calls > 0 => disconnect_view = <<TornDown>>

\* The transport failed under a session with channel 258 relaying (its log
\* ends with the success reply) and channel 1 open: the callback was invoked
\* with the error and found the session torn down.
C16_Witness ==
    /\ owner_pc = "waiting"
    /\ ~m_running
    /\ disconnect_calls = 1
    /\ disconnect_reason = "ConnectionReset"
    /\ disconnect_view = <<TornDown>>
    /\ m_channels = <<>>
    /\ Len(sent[258]) = 3
    /\ IsFrame(sent[258][3].frame, FT_ChannelRequestAck, 0, 258, ConnectReply(0))
    /\ Len(sent[1]) = 1
    /\ sockets[258] = 0

\* C17: Shutdown on a running session, whatever channels it holds, leaves it
\* not running with the keepalive timer stopped, the registry empty, no socket
\* of any channel open and nothing sent; each channel of the registry is
\* force-closed to Closed with its connection closed and released.  No PING
\* follows: the timer callback sends nothing on a session that is not running,
\* no PING ever reached SendFrame of one while the session existed, and once
\* the owner has shut down a running session no timer is live.
C17_ShutdownTeardown ==
    /\ m_running =>
          \E T \in {Shutdown(Sess)} :
              /\ ~T.m_running
              /\ ~T.m_keepalive_timer
              /\ T.m_channels = <<>>
              /\ \A i \in ChanIds : T.sockets[i] = 0
              /\ T.sent = sent
              /\ KeepaliveTimerCallback(T) = T
    /\ m_running =>
          \A id \in DOMAIN m_channels :
              \E x \in {ForceClose(Ctx(m_channels[id]))} :
                  /\ x.ch.m_state = "Closed"
                  /\ ~x.ch.m_target.exists
                  /\ x.ch.m_target.m_socket = "INVALID"
                  /\ x.closed = sockets[id]
                  /\ x.out = <<>>
    /\ ~m_running => KeepaliveTimerCallback(Sess) = Sess
    /\ owner_pc # "destroyed" =>
          \A i \in 1..Len(sent[0]) : TypeAt(sent[0], i) = FT_Ping => sent[0][i].wire
    /\ (owner_pc \in {"shutdown", "closed", "destroyed"} /\ t_signals = 0) =>
          ~m_keepalive_timer

\* The owner has shut down a running session whose timer had sent a PING and
\* whose channel 258 was relaying: nothing is registered, no socket is open,
\* no timer is live.
C17_Witness ==
    /\ owner_pc = "shutdown"
    /\ t_signals = 0
    /\ ~m_running
    /\ ~m_keepalive_timer
    /\ m_channels = <<>>
    /\ sockets[258] = 0
    /\ Len(sent[0]) = 1
    /\ TypeAt(sent[0], 1) = FT_Ping
    /\ Len(sent[258]) = 3
    /\ IsFrame(sent[258][3].frame, FT_ChannelRequestAck, 0, 258, ConnectReply(0))

\* C18 as stated: when the owner calls Shutdown on a running session, the
\* callback installed by Start is not invoked, neither by Shutdown itself nor
\* by anything the transport reports afterwards, the read aborted by the
\* owner's transport.Close() included.
C18_NoCallbackAfterShutdown ==
    /\ m_running => Shutdown(Sess).disconnect_calls = disconnect_calls
    /\ (owner_pc \in {"shutdown", "closed"} /\ t_signals = 0) =>
          \A ec \in DisconnectErrors :
              TransportSignal(Sess, ec).disconnect_calls = disconnect_calls
    /\ disconnect_reason # "Shutdown"

\* The entries of a log that were handed to a connected transport.
Wired(log) == SelectSeq(log, LAMBDA e : e.wire)

\* C19 as stated: once the owner's Shutdown has begun, a frame delivered by
\* the transport has no effect: the registry and every channel in it stay as
\* they are, no connection is made or written to, no frame goes to the peer;
\* so the registry a Shutdown of a running session emptied stays empty.
C19_FramesIgnoredAfterShutdown ==
    /\ owner_pc \in {"shutdown", "closed"} =>
          \A d \in InFrames : \A e \in EnvsFor(d) :
              \E T \in {OnDataReceived(Sess, d, e)} :
                  /\ T.m_channels = m_channels
                  /\ T.sockets = sockets
                  /\ \A i \in LogIds : Wired(T.sent[i]) = Wired(sent[i])
    /\ (owner_pc \in {"shutdown", "closed"} /\ t_signals = 0) => m_channels = <<>>

\* The session S without what belongs to channel id: its flags, its timer, its
\* callback record, its transport, and the registry entry, the sockets and
\* the log of every other id.
Others(S, id) ==
    [m_running |-> S.m_running, m_keepalive_timer |-> S.m_keepalive_timer,
     t_connected |-> S.t_connected, disconnect_calls |-> S.disconnect_calls,
     m_channels |-> [j \in (DOMAIN S.m_channels) \ {id} |-> S.m_channels[j]],
     sockets |-> [j \in ChanIds \ {id} |-> S.sockets[j]],
     sent |-> [j \in LogIds \ {id} |-> S.sent[j]]]

\* Completions of a target read that report the end of the connection.
TargetDisconnects == {c \in RecvCompletions : c.bytes = <<>>}

\* The sessions that the events on channel id lead to from the current state:
\* a CHANNEL_REQUEST with any SOCKS5 bytes (ConnectAsync succeeding or failing
\* at once), a failed connect completion, a target read that ends the
\* connection.
EventsOn(id) ==
    {OnDataReceived(Sess, Encode(FT_ChannelRequest, 0, id, p), [EnvOk EXCEPT !.connect_ec = ec]) :
        p \in ReqPayloads, ec \in {"Success", "DnsResolutionFailed"}}
    \cup (IF m_channels[id].m_target.connect_pending
          THEN {Stored(Sess, id, TargetConnectComplete(Ctx(m_channels[id]), ec, f)) :
                   ec \in ConnectErrors, f \in BOOLEAN}
          ELSE {})
    \cup (IF m_channels[id].m_target.recv_pending
          THEN {Stored(Sess, id, TargetRecvComplete(Ctx(m_channels[id]), c.bytes, c.ec, c.post_fail)) :
                   c \in TargetDisconnects}
          ELSE {})

\* The event that led to T was a failure of channel id: the channel, open
\* before, is now Closed or Closing and has announced it with CHANNEL_CLOSE.
FailedOn(T, id) ==
    /\ m_channels[id].m_state \in {"Requesting", "Connecting", "Relaying"}
    /\ T.m_channels[id].m_state \in {"Closed", "Closing"}
    /\ Len(T.sent[id]) > Len(sent[id])
    /\ TypeAt(T.sent[id], Len(T.sent[id])) = FT_ChannelClose

\* C20: a failure of channel id (a malformed SOCKS5 message, no acceptable
\* method, an unknown address type, a connect that fails at once or on
\* completion, the target closing or resetting the connection) leaves the
\* session running and everything that is not of channel id as it was: the
\* other channels with their state, windows, SOCKS5 buffer and connection,
\* their sockets, their logs, the registry entries.  Frames that follow, in
\* the same read or a later one, are dispatched: PING is answered, a
\* CHANNEL_OPEN for another id registers a channel.
C20_FailureIsLocal ==
    m_running =>
        \A id \in DOMAIN m_channels : \A T \in EventsOn(id) :
            FailedOn(T, id) =>
                /\ T.m_running
                /\ Others(T, id) = Others(Sess, id)
                /\ DOMAIN T.m_channels = DOMAIN m_channels
                /\ TransportPostRecv(T, FALSE).t_recv_pending
                /\ Wired(OnDataReceived(T, Encode(FT_Ping, 0, 0, <<>>), EnvOk).sent[0])
                      = Append(Wired(sent[0]), [frame |-> Encode(FT_Pong, 0, 0, <<>>), wire |-> TRUE])
                /\ \A j \in ChanIds \ {id} :
                      /\ j \in DOMAIN OnDataReceived(T, Encode(FT_ChannelOpen, 0, j, <<>>), EnvOk).m_channels
                      /\ \A p \in {MethodBadVersion, ConnectBadAtyp} :
                            OnDataReceived(Sess, Encode(FT_ChannelRequest, 0, id, p)
                                                 \o Encode(FT_ChannelOpen, 0, j, <<>>), EnvOk)
                            = OnDataReceived(
                                  OnDataReceived(Sess, Encode(FT_ChannelRequest, 0, id, p), EnvOk),
                                  Encode(FT_ChannelOpen, 0, j, <<>>), EnvOk)

\* The target of the relaying channel 258 has closed the connection: the
\* channel is Closing with CHANNEL_CLOSE(FIN) sent and its socket closed,
\* while the session runs on and channel 1 waits for its request.
C20_Witness ==
    /\ m_running
    /\ m_keepalive_timer
    /\ t_recv_pending
    /\ DOMAIN m_channels = ChanIds
    /\ m_channels[258].m_state = "Closing"
    /\ Len(sent[258]) = 4
    /\ IsFrame(sent[258][3].frame, FT_ChannelRequestAck, 0, 258, ConnectReply(0))
    /\ IsFrame(sent[258][4].frame, FT_ChannelClose, 1, 258, <<>>)
    /\ sockets[258] = 0
    /\ m_channels[1].m_state = "Requesting"
    /\ Len(sent[1]) = 1

\* PING frames a peer may send: the plain one, and ones with a channel id, a
\* flag and a payload, which HandlePing does not look at.
PingFrames ==
    {Encode(FT_Ping, 0, 0, <<>>), Encode(FT_Ping, FRAME_FLAG_FIN, 258, <<>>),
     Encode(FT_Ping, 0, 0, <<9>>)}

Pong == Encode(FT_Pong, 0, 0, <<>>)

\* C21: while the session runs, a PING delivered by the transport appends
\* exactly one PONG (channel id 0, no payload), handed to the transport, to
\* what the session has sent and changes nothing else: no channel, no registry
\* entry, no socket.  The PONG is sent before the frame that follows the PING
\* is dispatched: PING and a frame in one read give what the frame gives to
\* the session that has already answered; two PINGs give two PONGs.
C21_PingPong ==
    m_running =>
        \A ping \in PingFrames :
            \E T \in {OnDataReceived(Sess, ping, EnvOk)} :
                /\ T.sent[0] = Append(sent[0], [frame |-> Pong, wire |-> TRUE])
                /\ IsFrame(T.sent[0][Len(T.sent[0])].frame, FT_Pong, 0, 0, <<>>)
                /\ [T EXCEPT !.sent[0] = sent[0]] = Sess
                /\ \A d \in InFrames : \A e \in EnvsFor(d) :
                      OnDataReceived(Sess, ping \o d, e) = OnDataReceived(T, d, e)
                /\ OnDataReceived(Sess, ping \o ping, EnvOk).sent[0]
                      = Append(T.sent[0], [frame |-> Pong, wire |-> TRUE])

\* A running session with channel 258 relaying has answered one PING.
C21_Witness ==
    /\ m_running
    /\ Len(sent[0]) = 1
    /\ sent[0][1] = [frame |-> Pong, wire |-> TRUE]
    /\ 258 \in DOMAIN m_channels
    /\ m_channels[258].m_state = "Relaying"
    /\ Len(sent[258]) = 3

\* The PINGs among the entries a step appends to the frames sent under id 0
\* that were handed to a transport.
NewPingsOnWire ==
    {i \in (Len(sent[0]) + 1)..Len(sent'[0]) :
        TypeAt(sent'[0], i) = FT_Ping /\ sent'[0][i].wire}

\* C22 as stated: a keepalive PING is sent only by a running session.  With
\* keepalive_interval_ms = 0 (or below) no timer is created; the timer
\* callback sends nothing when the session is not running; and once Shutdown
\* has returned or a transport disconnect has been handled, no step hands a
\* further PING to the transport.
C22_PingOnlyWhileRunning ==
    /\ [](\A ms \in {0, -1} :
             ~StartKeepaliveTimer([Sess EXCEPT !.m_keepalive_ms = ms,
                                               !.m_keepalive_timer = FALSE]).m_keepalive_timer)
    /\ [](~m_running => KeepaliveTimerCallback(Sess) = Sess)
    /\ [][(~m_running /\ owner_pc # "constructed") => NewPingsOnWire = {}]_vars

\* ------------------------------------------------ SOCKS5 parser harness

\* Methods offered in one method request, and the length of a domain name.
MaxMethods == 3
MaxDomainLen == 3

\* Valid method requests: VER, NMETHODS, METHODS, with 1..MaxMethods methods
\* out of NO_AUTH (0), GSSAPI (1) and USERNAME/PASSWORD (2).
MethodLists == UNION {[1..n -> {0, 1, 2}] : n \in 1..MaxMethods}

MethodMessage(methods) == <<SOCKS_VERSION, Len(methods)>> \o methods

\* Valid CONNECT requests, as what they ask for: an IPv4 address, a domain
\* name of each length, an IPv6 address, with a port above 255.
ConnectTargets ==
    {[atyp |-> ATYP_IPV4, host |-> <<10, 0, 0, 1>>, port |-> 443],
     [atyp |-> ATYP_IPV6, host |-> [i \in 1..16 |-> 32 + i], port |-> 8080]}
    \cup {[atyp |-> ATYP_DOMAIN, host |-> [i \in 1..n |-> 96 + i], port |-> 1080] :
             n \in 1..MaxDomainLen}

\* VER CMD RSV ATYP DST.ADDR DST.PORT, the port in network byte order.
ConnectMessage(t) ==
    <<SOCKS_VERSION, CMD_CONNECT, 0, t.atyp>>
    \o (IF t.atyp = ATYP_DOMAIN THEN <<Len(t.host)>> ELSE <<>>)
    \o t.host \o <<t.port \div 256, t.port % 256>>

\* Bytes that follow a message in the buffer: none, the start of a next
\* message, bytes that look like nothing.
Trailers == {<<>>, <<5>>, <<5, 1, 0, 1>>, <<0, 255>>}

\* The parsers are given the first fed bytes of msg \o tail.
InitSocks5 ==
    /\ CodecIdle /\ SessIdle /\ StmIdle
    /\ tcp = <<>> /\ s5s = <<>> /\ race = <<>> /\ MoreIdle
    /\ \/ \E m \in MethodLists, t \in Trailers :
             p5 = [kind |-> "method", msg |-> MethodMessage(m), tail |-> t, fed |-> 0,
                   expect |-> [supports_no_auth |-> \E i \in 1..Len(m) : m[i] = AUTH_NONE],
                   res |-> ParseMethodRequest(<<>>)]
       \/ \E c \in ConnectTargets, t \in Trailers :
             p5 = [kind |-> "connect", msg |-> ConnectMessage(c), tail |-> t, fed |-> 0,
                   expect |-> c,
                   res |-> ParseConnectRequest(<<>>, NoRequest)]

\* One more byte has arrived and the method request parser runs on the buffer.
ParseMethodAgain ==
    /\ p5 # <<>> /\ p5.kind = "method"
    /\ p5.fed < Len(p5.msg \o p5.tail)
    /\ p5' = [p5 EXCEPT !.fed = @ + 1,
                        !.res = ParseMethodRequest(SubSeq(p5.msg \o p5.tail, 1, p5.fed + 1))]
    /\ UNCHANGED <<codecVars, sessVars, stmVars, tcp, s5s, race, moreVars>>

\* One more byte has arrived and the CONNECT request parser runs on the
\* buffer, writing into the ConnectRequest the call before has left.
ParseConnectAgain ==
    /\ p5 # <<>> /\ p5.kind = "connect"
    /\ p5.fed < Len(p5.msg \o p5.tail)
    /\ p5' = [p5 EXCEPT !.fed = @ + 1,
                        !.res = ParseConnectRequest(SubSeq(p5.msg \o p5.tail, 1, p5.fed + 1),
                                                    p5.res.req)]
    /\ UNCHANGED <<codecVars, sessVars, stmVars, tcp, s5s, race, moreVars>>

NextSocks5 == ParseMethodAgain \/ ParseConnectAgain

SpecSocks5 == InitSocks5 /\ [][NextSocks5]_vars

\* C23: on every proper prefix of a valid method request or CONNECT request
\* (IPv4, DOMAIN, IPv6) the parser returns consumed = 0; on the whole
\* message, and on the whole message followed by further bytes, it returns
\* the length of the message and the full result: whether NO_AUTH is offered,
\* respectively the address type, the address and the port.
C23_ParseIncremental ==
    p5 # <<>> =>
        /\ p5.fed < Len(p5.msg) => p5.res.consumed = 0
        /\ p5.fed >= Len(p5.msg) =>
              /\ p5.res.consumed = Len(p5.msg)
              /\ p5.kind = "method" => p5.res.supports_no_auth = p5.expect.supports_no_auth
              /\ p5.kind = "connect" => p5.res.req = p5.expect
        /\ p5.kind = "connect" =>
              ParseConnectRequest(SubSeq(p5.msg \o p5.tail, 1, p5.fed), NoRequest).consumed
                  = p5.res.consumed

\* A CONNECT request for the longest domain name has been parsed with two
\* bytes behind it.
C23_Witness ==
    /\ p5 # <<>>
    /\ p5.kind = "connect"
    /\ p5.fed = Len(p5.msg) + 2
    /\ p5.expect.atyp = ATYP_DOMAIN
    /\ Len(p5.expect.host) = MaxDomainLen
    /\ p5.res.consumed = 7 + MaxDomainLen
    /\ p5.res.req.port = 1080

\* Well-formed requests whose command is not CONNECT: BIND, UDP ASSOCIATE and
\* an unassigned command, for an IPv4 address and for a domain name.
OtherCommandRequests ==
    {<<SOCKS_VERSION, cmd, 0, ATYP_IPV4, 10, 0, 0, 1, 0, 80>> : cmd \in {2, 3, 0}}
    \cup {BindIPv4, <<SOCKS_VERSION, 2, 0, ATYP_DOMAIN, 1, 97, 0, 80>>}

\* C24 as stated: a well-formed request with a command other than CONNECT is
\* consumed by the parser, and the channel that receives it after its method
\* negotiation neither enters Connecting nor makes a connection or opens a
\* socket.
C24_OnlyConnectServed ==
    \A id \in DOMAIN m_channels : \A p \in OtherCommandRequests :
        (m_channels[id].m_state = "Requesting" /\ m_channels[id].m_method_done
             /\ m_channels[id].m_socks5_buf = <<>>) =>
            \E x \in {OnRequest(Ctx(m_channels[id]), p, "Success")} :
                /\ ParseConnectRequest(p, m_channels[id].m_connect_req).consumed = Len(p)
                /\ x.ch.m_socks5_buf = <<>>
                /\ x.ch.m_state # "Connecting"
                /\ ~x.ch.m_target.exists
                /\ x.opened = 0

\* ------------------------------------------------ TcpConnection harness

\* Buffers passed to Send, data reads that complete, and calls of Close.
MaxSends == 3
MaxReads == 2
MaxCloses == 2

\* Threads that call Send.
Senders == {"a", "b"}

\* One TcpConnection whose connect has completed, with its socket and the
\* threads that use it.  The critical sections of m_send_cs are single steps;
\* outside them every read or write of a member is a step of its own.
\*   t           the members of the TcpConnection
\*   recv_out    the WSARecv calls in flight, each with "was cancelled"
\*   send_out    the WSASend calls in flight: buffer and "was cancelled"
\*   reader      where the worker that runs StartReading / OnRecvComplete is
\*   sender      per Send caller: "idle", or "checked" (past the m_connected test)
\*   closer      where the thread inside Close is (0: not inside)
\*   accepted    Send calls that have queued their buffer; buffer k is the k-th
\*   handed      the buffers WSASend has taken, in order
\*   calls       the read callbacks invoked, in order (n: number of the read)
\*   failed      a WSASend on the open socket failed, at once or on completion
\*   late_post   a WSARecv was issued after on_disconnected had been invoked
InitTcp ==
    /\ CodecIdle /\ SessIdle /\ StmIdle
    /\ p5 = <<>> /\ s5s = <<>> /\ race = <<>> /\ MoreIdle
    /\ tcp = [t |-> [NewTcpConnection EXCEPT !.m_socket = "open", !.m_connected = TRUE],
              recv_out |-> <<>>, send_out |-> <<>>,
              reader |-> "idle", started |-> FALSE,
              sender |-> [i \in Senders |-> "idle"],
              closer |-> 0, closes |-> 0,
              accepted |-> 0, handed |-> <<>>,
              reads |-> 0, calls |-> <<>>,
              failed |-> FALSE, late_post |-> FALSE]

TcpIdle == UNCHANGED <<codecVars, sessVars, stmVars, p5, s5s, race, moreVars>>

DiscCalled(c) == \E i \in 1..Len(c.calls) : c.calls[i].cb = "disc"

\* m_on_disconnect(ec), if it is set.
CallDisc(c) ==
    IF c.t.has_read_callbacks
    THEN [c EXCEPT !.calls = Append(@, [cb |-> "disc", n |-> 0])]
    ELSE c

\* The test at the head of TcpConnection::PostRecv.
PostRecvTest(c) ==
    [c EXCEPT !.reader = IF c.t.m_connected /\ c.t.m_reading THEN "post" ELSE "idle"]

\* TcpConnection::StartReading up to the test in PostRecv.
TcpStartReading ==
    /\ tcp # <<>> /\ ~tcp.started /\ tcp.reader = "idle"
    /\ tcp' = PostRecvTest([tcp EXCEPT !.started = TRUE,
                                       !.t.has_read_callbacks = TRUE,
                                       !.t.m_reading = TRUE])
    /\ TcpIdle

\* The WSARecv call of PostRecv.  It fails at once on a closed socket, and
\* may fail at once on an open one.
TcpWSARecv(wsa_fail) ==
    /\ tcp # <<>> /\ tcp.reader = "post"
    /\ LET r == PostRecv([tcp.t EXCEPT !.m_connected = TRUE, !.m_reading = TRUE],
                         wsa_fail \/ tcp.t.m_socket = "INVALID")
           c == [tcp EXCEPT !.reader = "idle",
                            !.t.m_reading = IF r.t.m_reading THEN tcp.t.m_reading ELSE FALSE]
       IN  tcp' = IF r.t.recv_pending
                  THEN [c EXCEPT !.recv_out = Append(@, FALSE),
                                 !.late_post = @ \/ DiscCalled(tcp)]
                  ELSE IF r.disconnect THEN CallDisc(c) ELSE c
    /\ TcpIdle

\* OnRecvComplete that keeps reading after it has reported the disconnect.
OnRecvComplete_Repost(c, kind) ==
    IF kind = "data"
    THEN [c EXCEPT !.reads = @ + 1, !.reader = "after_data",
                   !.calls = Append(@, [cb |-> "data", n |-> c.reads + 1])]
    ELSE [CallDisc(c) EXCEPT !.reader = "post"]

\* TcpConnection::OnRecvComplete up to the return of the callback it invokes:
\* an error or a read of 0 bytes ends the reading and is reported, data are
\* handed over.
OnRecvComplete(c, kind) ==
    IF kind = "data"
    THEN [c EXCEPT !.reads = @ + 1, !.reader = "after_data",
                   !.calls = IF c.t.has_read_callbacks
                             THEN Append(@, [cb |-> "data", n |-> c.reads + 1])
                             ELSE @]
    ELSE CallDisc([c EXCEPT !.t.m_reading = FALSE])

\* The completion of the WSARecv in flight.  A read that Close has cancelled
\* completes with ErrorCode::Shutdown, unless it had completed before the
\* cancel reached it.
TcpRecvComplete(kind) ==
    /\ tcp # <<>> /\ tcp.recv_out # <<>> /\ tcp.reader = "idle"
    /\ kind = "shutdown" => Head(tcp.recv_out)
    /\ kind = "error" => ~Head(tcp.recv_out)
    /\ kind = "data" => tcp.reads < MaxReads
    /\ tcp' = OnRecvComplete([tcp EXCEPT !.recv_out = Tail(@)], kind)
    /\ TcpIdle

\* The end of OnRecvComplete: if (m_reading) PostRecv().
TcpReadOn ==
    /\ tcp # <<>> /\ tcp.reader = "after_data"
    /\ tcp' = IF tcp.t.m_reading THEN PostRecvTest(tcp) ELSE [tcp EXCEPT !.reader = "idle"]
    /\ TcpIdle

\* TcpConnection::Send: the m_connected test, which is made outside m_send_cs.
TcpSendTest(i) ==
    /\ tcp # <<>> /\ tcp.sender[i] = "idle"
    /\ tcp.accepted + Cardinality({j \in Senders : tcp.sender[j] = "checked"}) < MaxSends
    /\ tcp.t.m_connected
    /\ tcp' = [tcp EXCEPT !.sender[i] = "checked"]
    /\ TcpIdle

\* FlushSendQueue that submits the newest buffer of the queue.
Flushed_Newest(c, q, fail) ==
    IF q # <<>> /\ ~fail
    THEN [c EXCEPT !.send_out = Append(@, [buf |-> q[Len(q)], cancelled |-> FALSE]),
                   !.handed = Append(@, q[Len(q)])]
    ELSE c

\* The connection after a FlushSendQueue call that found queue q: a WSASend
\* that is taken is in flight with the front buffer.
Flushed(c, q, fail) ==
    IF q # <<>> /\ ~fail
    THEN [c EXCEPT !.send_out = Append(@, [buf |-> Head(q), cancelled |-> FALSE]),
                   !.handed = Append(@, Head(q))]
    ELSE [c EXCEPT !.failed = @ \/ (q # <<>> /\ c.t.m_socket = "open")]

\* TcpConnection::Send inside m_send_cs: push, and FlushSendQueue if no send
\* is in progress.
TcpSendQueued(i, wsa_fail) ==
    /\ tcp # <<>> /\ tcp.sender[i] = "checked"
    /\ LET fail == wsa_fail \/ tcp.t.m_socket = "INVALID"
           q    == Append(tcp.t.m_send_queue, tcp.accepted + 1)
           c    == [tcp EXCEPT !.sender[i] = "idle", !.accepted = @ + 1,
                               !.t = TcpSend([@ EXCEPT !.m_connected = TRUE],
                                             tcp.accepted + 1, fail),
                               !.t.m_connected = tcp.t.m_connected]
       IN  tcp' = IF tcp.t.m_send_in_progress THEN c ELSE Flushed(c, q, fail)
    /\ TcpIdle

\* TcpConnection::OnSendComplete, all of it inside m_send_cs.
TcpSendComplete(ec, wsa_fail) ==
    /\ tcp # <<>> /\ tcp.send_out # <<>>
    /\ ec = "Shutdown" => Head(tcp.send_out).cancelled
    /\ ec = "ConnectionReset" => ~Head(tcp.send_out).cancelled
    /\ LET fail == wsa_fail \/ tcp.t.m_socket = "INVALID"
           q    == IF tcp.t.m_send_queue = <<>> THEN <<>> ELSE Tail(tcp.t.m_send_queue)
           c    == [tcp EXCEPT !.send_out = Tail(@),
                               !.t = OnSendComplete(@, ec, fail)]
       IN  tcp' = IF ec = "Success" THEN Flushed(c, q, fail)
                  ELSE [c EXCEPT !.failed = @ \/ (ec # "Shutdown")]
    /\ TcpIdle

\* TcpConnection::Close: m_connected = false; m_reading = false.
TcpCloseFlags ==
    /\ tcp # <<>> /\ tcp.closer = 0 /\ tcp.closes < MaxCloses
    /\ tcp' = [tcp EXCEPT !.closer = 1, !.closes = @ + 1,
                          !.t.m_connected = FALSE, !.t.m_reading = FALSE]
    /\ TcpIdle

\* TcpConnection::Close: CancelIoEx, shutdown, closesocket on an open socket.
TcpCloseSocket ==
    /\ tcp # <<>> /\ tcp.closer = 1
    /\ tcp' = IF tcp.t.m_socket = "INVALID" THEN [tcp EXCEPT !.closer = 2]
              ELSE [tcp EXCEPT !.closer = 2, !.t.m_socket = "INVALID",
                               !.recv_out = [k \in DOMAIN @ |-> TRUE],
                               !.send_out = [k \in DOMAIN @ |-> [@[k] EXCEPT !.cancelled = TRUE]]]
    /\ TcpIdle

\* TcpConnection::Close: the queue is emptied inside m_send_cs.
TcpCloseQueue ==
    /\ tcp # <<>> /\ tcp.closer = 2
    /\ tcp' = [tcp EXCEPT !.closer = 0, !.t.m_send_queue = <<>>,
                          !.t.m_send_in_progress = FALSE]
    /\ TcpIdle

NextTcp ==
    \/ TcpStartReading
    \/ \E f \in BOOLEAN : TcpWSARecv(f)
    \/ \E k \in {"data", "zero", "error", "shutdown"} : TcpRecvComplete(k)
    \/ TcpReadOn
    \/ \E i \in Senders : TcpSendTest(i)
    \/ \E i \in Senders, f \in BOOLEAN : TcpSendQueued(i, f)
    \/ \E ec \in {"Success", "ConnectionReset", "Shutdown"}, f \in BOOLEAN : TcpSendComplete(ec, f)
    \/ TcpCloseFlags
    \/ TcpCloseSocket
    \/ TcpCloseQueue

SpecTcp == InitTcp /\ [][NextTcp]_vars

\* C25: the read callbacks of a TcpConnection.  on_data is invoked once for
\* each read that completes with data, in the order of completion; on_disconnected
\* is invoked at most once; after it no callback is invoked, no read is in
\* flight and no read is posted.
C25_ReadCallbacks ==
    tcp # <<>> =>
        /\ \A i \in 1..Len(tcp.calls) :
              /\ tcp.calls[i].cb = "data" => tcp.calls[i].n = i
              /\ tcp.calls[i].cb = "disc" => i = Len(tcp.calls)
        /\ Cardinality({i \in 1..Len(tcp.calls) : tcp.calls[i].cb = "data"})
              = tcp.reads
        /\ DiscCalled(tcp) =>
              /\ tcp.recv_out = <<>>
              /\ tcp.reader = "idle"
              /\ ~tcp.late_post

\* Two reads have delivered their data and the third has reported the end,
\* while the connection was never closed by its owner.
C25_Witness ==
    /\ tcp # <<>>
    /\ tcp.closes = 0
    /\ Len(tcp.calls) = MaxReads + 1
    /\ tcp.calls[MaxReads + 1].cb = "disc"
    /\ tcp.calls[1].cb = "data"

\* C26: whatever the interleaving of Send calls from several threads, send and
\* read completions and Close, at most one WSASend and at most one WSARecv are
\* in flight on the socket, and the buffers the socket has taken are buffers of
\* accepted Send calls, in the order of acceptance, each taken once.
C26_OneInFlightInOrder ==
    tcp # <<>> =>
        /\ Len(tcp.send_out) <= 1
        /\ Len(tcp.recv_out) <= 1
        /\ \A i \in 1..Len(tcp.handed) : tcp.handed[i] \in 1..tcp.accepted
        /\ \A i, j \in 1..Len(tcp.handed) : i < j => tcp.handed[i] < tcp.handed[j]

\* A send and a read are in flight, two buffers have been taken in order, a
\* second thread is past the m_connected test and Close has begun.
C26_Witness ==
    /\ tcp # <<>>
    /\ tcp.handed = <<1, 2>>
    /\ tcp.send_out # <<>>
    /\ tcp.recv_out # <<>>
    /\ \E i \in Senders : tcp.sender[i] = "checked"
    /\ tcp.closer = 1

\* C27: when a WSASend of a queued buffer has failed, at once or in its
\* completion, the connection is closed and on_disconnected has been invoked.
C27_SendFailureTerminates ==
    (tcp # <<>> /\ tcp.failed /\ tcp.started) =>
        /\ ~tcp.t.m_connected
        /\ DiscCalled(tcp)

\* ------------------------------------------------ Socks5Session harness

REP_ADDRESS_TYPE_NOT_SUPPORTED == 8

\* Method-selection messages: version 5 or 4, NMETHODS methods (none included).
S5MethodMessages ==
    {<<v, Len(m)>> \o m : v \in {SOCKS_VERSION, 4}, m \in MethodLists \cup {<<>>}}

\* What the client sends after the method-selection message.
S5Tails == {<<>>, ConnectIPv4 \o <<7>>, ConnectBadVersion}

\* One Socks5Session over a channel whose Read calls return the client's
\* bytes in pieces of any size.  The session runs on the calling thread and
\* blocks in IChannel::Read; a step of the model runs from the return of one
\* Read to the next Read (or to the return of Start).
\*   m_state, m_inbound_buf   the members of the session
\*   reading     the session is inside IChannel::Read
\*   msg, input  the method-selection message; the bytes not yet read
\*   fed, reads  the bytes Read calls have returned; the calls that returned bytes
\*   written     the buffers passed to IChannel::Write, in order
\*   at_write    for each of them, the value of fed when it was written
\*   eof_sent, was_closed   calls of IChannel::SendEof and IChannel::Close
\*   connects, tcp_closes, tcp_sends   calls of ConnectAsync, Close and Send on m_tcp
\*   tcp_reading m_tcp.StartReading was called
InitSocks5Session ==
    /\ CodecIdle /\ SessIdle /\ StmIdle
    /\ p5 = <<>> /\ tcp = <<>> /\ race = <<>> /\ MoreIdle
    /\ \E m \in S5MethodMessages, tl \in S5Tails :
          s5s = [m_state |-> "ReadingMethods", m_inbound_buf |-> <<>>,
                 reading |-> TRUE, msg |-> m, input |-> m \o tl, fed |-> 0, reads |-> 0,
                 written |-> <<>>, at_write |-> <<>>,
                 eof_sent |-> 0, was_closed |-> 0,
                 connects |-> 0, tcp_closes |-> 0, tcp_sends |-> 0,
                 tcp_reading |-> FALSE]

S5Idle == UNCHANGED <<codecVars, sessVars, stmVars, p5, tcp, race, moreVars>>

\* IChannel::Write
ChannelWrite(s, bytes) ==
    [s EXCEPT !.written = Append(@, bytes), !.at_write = Append(@, s.fed)]

\* Socks5Session::Close
Socks5SessionClose(s) ==
    IF s.m_state = "Closed" THEN s
    ELSE [s EXCEPT !.m_state = "Closed", !.reading = FALSE,
                   !.tcp_closes = @ + 1, !.eof_sent = @ + 1, !.was_closed = @ + 1]

\* Socks5Session::ReadFromChannel up to the call of IChannel::Read.
ReadFromChannel(s) ==
    IF s.m_state = "Closed" THEN s ELSE [s EXCEPT !.reading = TRUE]

\* Socks5Session::StartTcpConnect; sync_ec is what ConnectAsync returns.
StartTcpConnect(s, sync_ec) ==
    LET c == [s EXCEPT !.m_state = "Connecting", !.connects = @ + 1]
    IN  IF sync_ec # "Success"
        THEN Socks5SessionClose(
                 ChannelWrite(c, BuildConnectReply(ErrorCodeToSocks5Reply(sync_ec))))
        ELSE c

\* Socks5Session::HandleConnectRequest
HandleConnectRequest(s, sync_ec) ==
    LET r == ParseConnectRequest(s.m_inbound_buf, NoRequest)
    IN  IF r.consumed = 0 THEN ReadFromChannel(s)
        ELSE IF r.consumed < 0
        THEN Socks5SessionClose(ChannelWrite(s, BuildConnectReply(REP_GENERAL_FAILURE)))
        ELSE LET e == [s EXCEPT !.m_inbound_buf =
                            SubSeq(@, r.consumed + 1, Len(@))]
             IN  IF r.req.atyp \notin {ATYP_IPV4, ATYP_IPV6, ATYP_DOMAIN}
                 THEN Socks5SessionClose(
                          ChannelWrite(e, BuildConnectReply(REP_ADDRESS_TYPE_NOT_SUPPORTED)))
                 ELSE StartTcpConnect(e, sync_ec)

\* HandleMethodNegotiation that answers a message it has not yet seen whole.
HandleMethodNegotiation_Hasty(s) ==
    LET r == ParseMethodRequest(s.m_inbound_buf)
    IN  IF r.consumed > 0 /\ r.supports_no_auth
        THEN ReadFromChannel(
                 [ChannelWrite(s, BuildMethodResponse(AUTH_NONE))
                     EXCEPT !.m_inbound_buf = SubSeq(@, r.consumed + 1, Len(@)),
                            !.m_state = "ReadingRequest"])
        ELSE Socks5SessionClose(ChannelWrite(s, BuildMethodResponse(AUTH_NO_ACCEPTABLE)))

\* Socks5Session::HandleMethodNegotiation
HandleMethodNegotiation(s) ==
    LET r == ParseMethodRequest(s.m_inbound_buf)
    IN  IF r.consumed = 0 THEN ReadFromChannel(s)
        ELSE IF r.consumed < 0 \/ ~r.supports_no_auth
        THEN Socks5SessionClose(ChannelWrite(s, BuildMethodResponse(AUTH_NO_ACCEPTABLE)))
        ELSE ReadFromChannel(
                 [ChannelWrite(s, BuildMethodResponse(AUTH_NONE))
                     EXCEPT !.m_inbound_buf = SubSeq(@, r.consumed + 1, Len(@)),
                            !.m_state = "ReadingRequest"])

\* Socks5Session::OnChannelData
OnChannelData(s, data, sync_ec) ==
    LET a == [s EXCEPT !.m_inbound_buf = @ \o data]
    IN  CASE a.m_state = "ReadingMethods" -> HandleMethodNegotiation(a)
          [] a.m_state = "ReadingRequest" -> HandleConnectRequest(a, sync_ec)
          [] OTHER -> a

\* The rest of ReadFromChannel (or of the loop of StartRelay) when Read has
\* returned the next k bytes.
S5Read(k, sync_ec) ==
    /\ s5s # <<>> /\ s5s.reading /\ k \in 1..Len(s5s.input)
    /\ LET data == SubSeq(s5s.input, 1, k)
           a    == [s5s EXCEPT !.reading = FALSE, !.fed = @ + k, !.reads = @ + 1,
                               !.input = SubSeq(@, k + 1, Len(@))]
       IN  s5s' = IF a.m_state = "Relaying"
                  THEN [a EXCEPT !.tcp_sends = @ + 1, !.reading = TRUE]
                  ELSE OnChannelData(a, data, sync_ec)
    /\ S5Idle

\* The same when Read has returned no bytes or an error.
S5ReadEnd ==
    /\ s5s # <<>> /\ s5s.reading
    /\ s5s' = Socks5SessionClose([s5s EXCEPT !.reading = FALSE])
    /\ S5Idle

\* Socks5Session::OnTcpConnected, with StartRelay up to its first Read.
OnTcpConnected(s, ec) ==
    IF ec # "Success"
    THEN Socks5SessionClose(ChannelWrite(s, BuildConnectReply(ErrorCodeToSocks5Reply(ec))))
    ELSE [ChannelWrite(s, BuildConnectReply(REP_SUCCESS))
             EXCEPT !.m_state = "Relaying", !.tcp_reading = TRUE, !.reading = TRUE]

S5ConnectDone(ec) ==
    /\ s5s # <<>> /\ s5s.m_state = "Connecting"
    /\ s5s' = OnTcpConnected(s5s, ec)
    /\ S5Idle

\* The on_disconnect callback StartRelay gives to m_tcp.
S5TargetDisconnected ==
    /\ s5s # <<>> /\ s5s.m_state = "Relaying" /\ s5s.tcp_reading
    /\ s5s' = Socks5SessionClose([s5s EXCEPT !.eof_sent = @ + 1])
    /\ S5Idle

NextSocks5Session ==
    \/ \E k \in 1..(2 + MaxMethods + 10), ec \in {"Success", "SocketError"} : S5Read(k, ec)
    \/ S5ReadEnd
    \/ \E ec \in {"Success", "ConnectionRefused"} : S5ConnectDone(ec)
    \/ S5TargetDisconnected

SpecSocks5Session == InitSocks5Session /\ [][NextSocks5Session]_vars

\* What the method-selection message msg is to be answered with.
ExpectedMethodResponse(msg) ==
    IF msg[1] = SOCKS_VERSION /\ \E i \in 3..Len(msg) : msg[i] = AUTH_NONE
    THEN <<SOCKS_VERSION, AUTH_NONE>>
    ELSE <<SOCKS_VERSION, AUTH_NO_ACCEPTABLE>>

\* The method response is the only 2-byte buffer written and the first one; it
\* is the expected one; it has been written once the message has been read;
\* after [05 FF] the channel is closed, nothing more is read or written and no
\* TCP connect was started.
S5OneResponse(s) ==
    /\ \A i \in 1..Len(s.written) : Len(s.written[i]) = 2 <=> i = 1
    /\ s.written # <<>> => s.written[1] = ExpectedMethodResponse(s.msg)
    /\ s.fed >= Len(s.msg) => s.written # <<>>
    /\ (s.written # <<>> /\ s.written[1] = <<SOCKS_VERSION, AUTH_NO_ACCEPTABLE>>) =>
          /\ s.m_state = "Closed"
          /\ ~s.reading
          /\ s.was_closed = 1
          /\ Len(s.written) = 1
          /\ s.fed = s.at_write[1]
          /\ s.connects = 0

\* C28 as stated: for every split of the method-selection message over the
\* channel reads, the session writes exactly one method response, [05 00] for
\* version 5 with NO_AUTH offered and [05 FF] otherwise, and it writes it when
\* the whole message has been read, not before; after [05 FF] it closes the
\* channel, reads no CONNECT request and starts no TCP connect.
C28_ResponseOnceComplete ==
    s5s # <<>> =>
        /\ S5OneResponse(s5s)
        /\ s5s.written # <<>> => s5s.at_write[1] >= Len(s5s.msg)

\* C28, amended: the same, except that a message whose version byte is not 5
\* is answered with [05 FF] as soon as its first two bytes have been read; a
\* version-5 message is answered only when it has been read whole.
C28_MethodResponse ==
    s5s # <<>> =>
        /\ S5OneResponse(s5s)
        /\ s5s.written # <<>> =>
              s5s.at_write[1] >= (IF s5s.msg[1] = SOCKS_VERSION THEN Len(s5s.msg) ELSE 2)

\* A version-5 message of the greatest length that does not offer NO_AUTH has
\* arrived in three reads, the last of which brought its last byte alone; it
\* was answered with [05 FF], the session is closed and the CONNECT request
\* that follows it is unread.
C28_Witness ==
    /\ s5s # <<>>
    /\ s5s.msg[1] = SOCKS_VERSION
    /\ Len(s5s.msg) = 2 + MaxMethods
    /\ s5s.reads = 3
    /\ s5s.fed = Len(s5s.msg)
    /\ s5s.written = <<BuildMethodResponse(AUTH_NO_ACCEPTABLE)>>
    /\ s5s.m_state = "Closed"
    /\ s5s.input # <<>>

\* ------------------------------------- Channel on two I/O workers

\* WINDOW_UPDATE frames handled, target reads delivered, the send window at
\* the start.
MaxUpdates == 2
MaxTargetData == 2
RaceWindow == 3

\* One Channel with an outbound connection, used by two I/O workers at once:
\* the worker that handles the transport's completions (frames of the mux) and
\* a worker that handles the completions of the target socket.  Channel has no
\* lock, so every read and every write of a member is a step of its own.
\*   m_state, m_target, m_send_window   the members of the Channel
\*   destroyed   RemoveChannel has destroyed the Channel
\*   mux_pc, mux_reg   where the transport's worker is; the value it has loaded
\*   tgt_pc, tgt_reg, tgt_rest, tgt_chunk   the same for the target's worker;
\*               the bytes SendToMux has still to send; the chunk it chose
\*   connect_due the completion of ConnectEx is still to be delivered
\*   reading     StartReading was called on the target
\*   closes, updates, datas   the frames and reads handled so far
\*   incs, deds  the sum of the increments received; of the deductions made
\*   was_closed  m_state has been Closed
\*   revived     m_state was Closed and was written to another value
\*   late_use    StartReading or Close was called on the target, or the empty
\*               m_target was used, after m_state had been Closed
InitRace ==
    /\ CodecIdle /\ SessIdle /\ StmIdle
    /\ p5 = <<>> /\ tcp = <<>> /\ s5s = <<>> /\ MoreIdle
    /\ \E st \in {"Connecting", "Relaying"} :
          race = [m_state |-> st, m_target |-> "set", m_send_window |-> RaceWindow,
                  destroyed |-> FALSE,
                  mux_pc |-> "idle", mux_reg |-> 0, mux_inc |-> 0,
                  tgt_pc |-> "idle", tgt_reg |-> 0, tgt_rest |-> 0, tgt_chunk |-> 0,
                  connect_due |-> st = "Connecting", reading |-> st = "Relaying",
                  closes |-> 0, updates |-> 0, datas |-> 0,
                  incs |-> 0, deds |-> 0,
                  was_closed |-> FALSE, revived |-> FALSE, late_use |-> FALSE]

RaceIdle == UNCHANGED <<codecVars, sessVars, stmVars, p5, tcp, s5s, moreVars>>

\* A write of m_state.
SetState(r, st) ==
    [r EXCEPT !.m_state = st,
              !.was_closed = @ \/ st = "Closed",
              !.revived = @ \/ (r.m_state = "Closed" /\ st # "Closed")]

\* MuxSession::HandleChannelClose: FindChannel, and Channel::OnClose up to
\* SendChannelCloseAck.
MuxCloseAck ==
    /\ race # <<>> /\ race.mux_pc = "idle" /\ ~race.destroyed /\ race.closes = 0
    /\ race' = [race EXCEPT !.mux_pc = "close_target", !.closes = 1]
    /\ RaceIdle

\* Channel::OnClose: if (m_target) { m_target->Close(); m_target.reset(); }
MuxCloseTarget ==
    /\ race # <<>> /\ race.mux_pc = "close_target"
    /\ race' = [race EXCEPT !.mux_pc = "close_state", !.m_target = "null"]
    /\ RaceIdle

\* Channel::OnClose: m_state = ChannelState::Closed.
MuxCloseState ==
    /\ race # <<>> /\ race.mux_pc = "close_state"
    /\ race' = [SetState(race, "Closed") EXCEPT !.mux_pc = "remove"]
    /\ RaceIdle

\* MuxSession::HandleChannelClose: if the state is Closed, RemoveChannel
\* destroys the Channel.
MuxRemove ==
    /\ race # <<>> /\ race.mux_pc = "remove"
    /\ race' = [race EXCEPT !.mux_pc = "idle", !.destroyed = race.m_state = "Closed"]
    /\ RaceIdle

\* Channel::OnWindowUpdate: the load of m_send_window += increment.
MuxWindowLoad(increment) ==
    /\ race # <<>> /\ race.mux_pc = "idle" /\ ~race.destroyed
    /\ race.updates < MaxUpdates
    /\ race' = [race EXCEPT !.mux_pc = "window_store", !.updates = @ + 1,
                            !.mux_reg = race.m_send_window, !.mux_inc = increment]
    /\ RaceIdle

\* Channel::OnWindowUpdate: the store of m_send_window += increment.
MuxWindowStore ==
    /\ race # <<>> /\ race.mux_pc = "window_store"
    /\ race' = [race EXCEPT !.mux_pc = "idle",
                            !.m_send_window = (race.mux_reg + race.mux_inc) % UINT32_MOD,
                            !.incs = @ + race.mux_inc]
    /\ RaceIdle

\* Channel::OnTargetConnected(Success): the test of m_state.
TgtConnectedTest ==
    /\ race # <<>> /\ race.tgt_pc = "idle" /\ race.connect_due
    /\ race' = [race EXCEPT !.connect_due = FALSE,
                            !.tgt_pc = IF race.m_state # "Connecting" THEN "idle"
                                       ELSE "connected_state"]
    /\ RaceIdle

\* Channel::OnTargetConnected: the reply is sent and m_state = Relaying.
TgtConnectedState ==
    /\ race # <<>> /\ race.tgt_pc = "connected_state"
    /\ race' = [SetState(race, "Relaying") EXCEPT !.tgt_pc = "connected_start"]
    /\ RaceIdle

\* Channel::OnTargetConnected: m_target->StartReading(...).
TgtConnectedStart ==
    /\ race # <<>> /\ race.tgt_pc = "connected_start"
    /\ race' = [race EXCEPT !.tgt_pc = IF race.m_target = "null" THEN "fault" ELSE "idle",
                            !.reading = race.m_target # "null",
                            !.late_use = @ \/ race.was_closed]
    /\ RaceIdle

\* Channel::OnTargetData: the test of m_state, for a read of len bytes.
TgtDataTest(len) ==
    /\ race # <<>> /\ race.tgt_pc = "idle" /\ race.reading
    /\ race.datas < MaxTargetData
    /\ race' = [race EXCEPT !.datas = @ + 1,
                            !.tgt_rest = IF race.m_state = "Relaying" THEN len ELSE 0,
                            !.tgt_pc = IF race.m_state = "Relaying" THEN "send_test"
                                       ELSE "idle"]
    /\ RaceIdle

\* Channel::SendToMux: if (m_send_window > 0) chunk = min(chunk, m_send_window);
\* with a window of 0 the chunk is sent without a deduction.
TgtSendTest ==
    /\ race # <<>> /\ race.tgt_pc = "send_test"
    /\ LET chunk == Min(race.tgt_rest, FRAME_MAX_PAYLOAD)
       IN  race' = IF race.m_send_window > 0
                   THEN [race EXCEPT !.tgt_chunk = Min(chunk, race.m_send_window),
                                     !.tgt_pc = "send_load"]
                   ELSE [race EXCEPT !.tgt_chunk = 0, !.tgt_rest = @ - chunk,
                                     !.tgt_pc = IF race.tgt_rest - chunk > 0
                                                THEN "send_test" ELSE "idle"]
    /\ RaceIdle

\* Channel::SendToMux: the load of m_send_window -= chunk.
TgtSendLoad ==
    /\ race # <<>> /\ race.tgt_pc = "send_load"
    /\ race' = [race EXCEPT !.tgt_reg = race.m_send_window, !.tgt_pc = "send_store"]
    /\ RaceIdle

\* Channel::SendToMux: the store of m_send_window -= chunk, SendData and the
\* end of the loop body.
TgtSendStore ==
    /\ race # <<>> /\ race.tgt_pc = "send_store"
    /\ race' = [race EXCEPT !.m_send_window = (race.tgt_reg - race.tgt_chunk) % UINT32_MOD,
                            !.deds = @ + race.tgt_chunk,
                            !.tgt_rest = @ - race.tgt_chunk,
                            !.tgt_pc = IF race.tgt_rest - race.tgt_chunk > 0
                                       THEN "send_test" ELSE "idle"]
    /\ RaceIdle

\* Channel::OnTargetDisconnected: the test of m_state.
TgtDisconnectedTest ==
    /\ race # <<>> /\ race.tgt_pc = "idle" /\ race.reading
    /\ race' = [race EXCEPT !.reading = FALSE,
                            !.tgt_pc = IF race.m_state \in {"Relaying", "Connecting"}
                                       THEN "disconnected_state"
                                       ELSE "disconnected_target"]
    /\ RaceIdle

\* Channel::OnTargetDisconnected: SendCloseToMux(FIN) and m_state = Closing.
TgtDisconnectedState ==
    /\ race # <<>> /\ race.tgt_pc = "disconnected_state"
    /\ race' = [SetState(race, "Closing") EXCEPT !.tgt_pc = "disconnected_target"]
    /\ RaceIdle

\* Channel::OnTargetDisconnected: if (m_target) m_target->Close().
TgtDisconnectedTarget ==
    /\ race # <<>> /\ race.tgt_pc = "disconnected_target"
    /\ race' = [race EXCEPT !.tgt_pc = "idle",
                            !.late_use = @ \/ (race.m_target # "null" /\ race.was_closed)]
    /\ RaceIdle

\* A callback that runs on the destroyed Channel uses freed memory: it may go
\* on as if the members were still there (the steps above), or fault.
TgtFault ==
    /\ race # <<>> /\ race.destroyed
    /\ race.tgt_pc \notin {"idle", "fault"}
    /\ race' = [race EXCEPT !.tgt_pc = "fault"]
    /\ RaceIdle

NextRace ==
    \/ MuxCloseAck
    \/ MuxCloseTarget
    \/ MuxCloseState
    \/ MuxRemove
    \/ \E inc \in 1..2 : MuxWindowLoad(inc)
    \/ MuxWindowStore
    \/ TgtConnectedTest
    \/ TgtConnectedState
    \/ TgtConnectedStart
    \/ \E len \in 1..2 : TgtDataTest(len)
    \/ TgtSendTest
    \/ TgtSendLoad
    \/ TgtSendStore
    \/ TgtDisconnectedTest
    \/ TgtDisconnectedState
    \/ TgtDisconnectedTarget
    \/ TgtFault

SpecRace == InitRace /\ [][NextRace]_vars

\* C29: Closed is terminal under every interleaving of the two workers: once
\* m_state has been Closed it stays Closed, the channel owns no target, and
\* no target is started, closed or dereferenced by the channel afterwards.
C29_ClosedIsTerminal ==
    (race # <<>> /\ race.was_closed) =>
        /\ race.m_state = "Closed"
        /\ race.m_target = "null"
        /\ ~race.revived
        /\ ~race.late_use

\* C30: the updates of send_window are serialised: whenever neither worker is
\* between the load and the store of an update, m_send_window is the initial
\* window plus the increments received minus the deductions made.
C30_WindowSerialised ==
    (race # <<>> /\ race.mux_pc # "window_store" /\ race.tgt_pc # "send_store") =>
        race.m_send_window = (RaceWindow + race.incs - race.deds) % UINT32_MOD

\* ------------------------------- I/O of destroyed connections harness

\* Frames in the logs, and operations left behind by destroyed connections
\* (delivered or not).
MaxOrphSent == 4
MaxOrphans == 2

\* A MuxSession as constructed, on a connected transport.
FreshSession ==
    [m_running |-> FALSE, m_on_disconnect |-> FALSE,
     m_keepalive_timer |-> FALSE, m_keepalive_ms |-> KeepaliveMs,
     m_channel_window_size |-> ChannelWindowSize,
     m_channels |-> <<>>, m_codec |-> <<>>,
     t_connected |-> TRUE, t_recv_pending |-> TRUE,
     sent |-> [i \in LogIds |-> <<>>], sockets |-> [i \in ChanIds |-> 0],
     disconnect_calls |-> 0, disconnect_reason |-> "Success",
     disconnect_view |-> <<>>, t_signals |-> 0]

IoOps == {"connect", "recv", "send"}

\* The overlapped operations the kernel holds for connection t: each has an
\* IoContext that is a member of t (m_connect_ctx, m_recv_ctx, m_send_ctx).
InFlight(t) ==
    {op \in IoOps : /\ t.exists
                    /\ \/ op = "connect" /\ t.connect_pending
                       \/ op = "recv" /\ t.recv_pending
                       \/ op = "send" /\ t.send_pending}

\* The operations in flight on the connection of channel id in session S.
InFlightOf(S, id) ==
    IF id \in DOMAIN S.m_channels THEN InFlight(S.m_channels[id].m_target) ELSE {}

\* The step from S to T has destroyed the connection channel id had in S
\* (with the channel, in every handler that does so).
ConnectionDestroyed(S, T, id) ==
    /\ id \in DOMAIN S.m_channels
    /\ S.m_channels[id].m_target.exists
    /\ id \in DOMAIN T.m_channels => ~T.m_channels[id].m_target.exists

\* Close has cancelled the operations in flight, but their completion
\* packets are still queued to the port: left[id][op] counts the packets
\* whose IoContext lay in a connection that has been destroyed.
LeftBehind(left, S, T) ==
    [id \in ChanIds |-> [op \in IoOps |->
        left[id][op] + (IF ConnectionDestroyed(S, T, id) /\ op \in InFlightOf(S, id)
                        THEN 1 ELSE 0)]]

LeftTotal(left) ==
    LET n(id) == left[id]["connect"] + left[id]["recv"] + left[id]["send"]
    IN  n(1) + n(258)

\* The peer of this harness: one channel that completes its handshake.
OrphFrames == PeerFrames(258, {MethodOk \o ConnectIPv4}, {<<1>>}, {})

\* Frames whose handler looks the channel up and then calls into it.
CallsChannel(d) ==
    ReadHeader(d).type \in {FT_ChannelRequest, FT_Data, FT_ChannelClose,
                            FT_ChannelCloseAck, FT_WindowUpdate}

\* A running session with the threads that act on it.
\*   S           the session (see Sess)
\*   left        completion packets of destroyed connections (see LeftBehind)
\*   found       the frame whose handler holds the Channel* that FindChannel
\*               returned and has not yet called into the channel
\*   owner       RunSession has called Shutdown
\*   replaced    a CHANNEL_OPEN has replaced a channel that had a connection
\*   stale_io    completions that ran their callback in a destroyed connection
\*   stale_call  handlers that called into a destroyed channel
\*   faulted     one of these has faulted
InitOrphan ==
    /\ CodecIdle /\ SessIdle /\ StmIdle
    /\ p5 = <<>> /\ tcp = <<>> /\ s5s = <<>> /\ race = <<>>
    /\ xmit = <<>> /\ hs = <<>> /\ win = <<>> /\ sup = <<>>
    /\ orph = [S |-> Start(FreshSession),
               left |-> [id \in ChanIds |-> [op \in IoOps |-> 0]],
               found |-> <<>>, owner |-> "waiting", replaced |-> FALSE,
               stale_io |-> 0, stale_call |-> 0, faulted |-> FALSE]

OrphIdle == UNCHANGED <<codecVars, sessVars, stmVars, p5, tcp, s5s, race, xmit, hs, win, sup>>

\* The harness after a step that took the session from orph.S to T.
OrphStep(o, T) ==
    [o EXCEPT !.S = T, !.left = LeftBehind(o.left, o.S, T)]

OrphBounded(o) ==
    /\ Bounded(o.S, MaxOrphSent)
    /\ LeftTotal(o.left) + o.stale_io <= MaxOrphans

\* Frame d is a CHANNEL_OPEN for an id whose channel has a connection.
Replaces(S, d) ==
    /\ ReadHeader(d).type = FT_ChannelOpen
    /\ ReadHeader(d).channel_id \in DOMAIN S.m_channels
    /\ S.m_channels[ReadHeader(d).channel_id].m_target.exists

\* The transport's worker decodes frame d.  A handler that finds the channel
\* holds its pointer outside the registry lock before it calls into it; the
\* other frames are handled at once.
OrphFrame(d, env) ==
    /\ orph # <<>> /\ ~orph.faulted /\ orph.found = <<>>
    /\ orph.S.t_recv_pending
    /\ IF CallsChannel(d) /\ ReadHeader(d).channel_id \in DOMAIN orph.S.m_channels
       THEN orph' = [orph EXCEPT !.found = <<[d |-> d, env |-> env]>>]
       ELSE \E o \in {OrphStep([orph EXCEPT !.replaced = @ \/ Replaces(orph.S, d)],
                                OnDataReceived(orph.S, d, env))} :
               OrphBounded(o) /\ orph' = o
    /\ OrphIdle

\* The handler calls into the channel it found.
OrphCall ==
    /\ orph # <<>> /\ ~orph.faulted /\ orph.found # <<>>
    /\ ReadHeader(orph.found[1].d).channel_id \in DOMAIN orph.S.m_channels
    /\ \E o \in {OrphStep([orph EXCEPT !.found = <<>>],
                          OnDataReceived(orph.S, orph.found[1].d, orph.found[1].env))} :
          OrphBounded(o) /\ orph' = o
    /\ OrphIdle

\* The same when the channel has been destroyed in between: the call runs on
\* freed memory, and either finds nothing to do there or faults.
OrphCallStale(fault) ==
    /\ orph # <<>> /\ ~orph.faulted /\ orph.found # <<>>
    /\ ReadHeader(orph.found[1].d).channel_id \notin DOMAIN orph.S.m_channels
    /\ orph' = [orph EXCEPT !.found = <<>>, !.stale_call = @ + 1, !.faulted = fault]
    /\ OrphIdle

\* A completion of a connection that exists.
OrphComplete(id, op, ok, wsa_fail) ==
    /\ orph # <<>> /\ ~orph.faulted
    /\ op \in InFlightOf(orph.S, id)
    /\ LET x == Ctx(orph.S.m_channels[id])
           y == CASE op = "connect" ->
                       TargetConnectComplete(x, IF ok THEN "Success" ELSE "ConnectionRefused",
                                             wsa_fail)
                  [] op = "recv" ->
                       TargetRecvComplete(x, IF ok THEN <<21>> ELSE <<>>, "Success", wsa_fail)
                  [] op = "send" ->
                       [x EXCEPT !.ch.m_target =
                           OnSendComplete(@, IF ok THEN "Success" ELSE "ConnectionReset",
                                          wsa_fail)]
       IN  \E o \in {[orph EXCEPT !.S = Stored(orph.S, id, y)]} :
               OrphBounded(o) /\ orph' = o
    /\ OrphIdle

\* IoEngine::WorkerThread dequeues the completion packet of an operation whose
\* connection has been destroyed and invokes ctx->callback through the freed
\* IoContext: the callback runs in the destroyed TcpConnection and reaches the
\* destroyed Channel through the captured this, or faults.
OrphCompleteStale(id, op, fault) ==
    /\ orph # <<>> /\ ~orph.faulted
    /\ orph.left[id][op] > 0
    /\ orph' = [orph EXCEPT !.left[id][op] = @ - 1, !.stale_io = @ + 1,
                            !.faulted = fault]
    /\ OrphIdle

\* The transport's read fails: MuxSession::OnTransportDisconnected.
OrphDisconnect ==
    /\ orph # <<>> /\ ~orph.faulted /\ orph.found = <<>>
    /\ orph.S.t_recv_pending
    /\ \E o \in {OrphStep(orph, OnTransportDisconnected(
                     [orph.S EXCEPT !.t_recv_pending = FALSE, !.t_connected = FALSE],
                     "ConnectionReset"))} :
          OrphBounded(o) /\ orph' = o
    /\ OrphIdle

\* RunSession calls session.Shutdown() on its own thread.
OrphShutdown ==
    /\ orph # <<>> /\ ~orph.faulted /\ orph.owner = "waiting"
    /\ \E o \in {OrphStep([orph EXCEPT !.owner = "shutdown"], Shutdown(orph.S))} :
          OrphBounded(o) /\ orph' = o
    /\ OrphIdle

NextOrphan ==
    \/ \E d \in OrphFrames : \E e \in EnvsFor(d) : OrphFrame(d, e)
    \/ OrphCall
    \/ \E f \in BOOLEAN : OrphCallStale(f)
    \/ \E id \in ChanIds, op \in IoOps, ok, f \in BOOLEAN : OrphComplete(id, op, ok, f)
    \/ \E id \in ChanIds, op \in IoOps, f \in BOOLEAN : OrphCompleteStale(id, op, f)
    \/ OrphDisconnect
    \/ OrphShutdown

SpecOrphan == InitOrphan /\ [][NextOrphan]_vars

\* C31: once a channel has been removed from the registry and destroyed, no
\* completion of its connection and no handler that had looked it up runs
\* code on the channel or on its connection.
C31_NothingRunsOnDestroyed ==
    orph # <<>> => (orph.stale_io = 0 /\ orph.stale_call = 0)

\* ------------------------------------------- SslTransport::Send harness

\* Frames each thread sends, TLS records a frame is encrypted into
\* (ceil(len / cbMaximumMessage)) and bytes of one encrypted record.
FramesPerThread == 2
FrameRecords == 2
RecordBytes == 1

\* Calls of EncryptMessage that fail.
MaxEncryptFailures == 1

FrameBytes == FrameRecords * RecordBytes

\* The threads SendFrame is called on: the transport's worker dispatching a
\* frame, a worker in a target connection's callback, the timer thread.
SendThreads == {"dispatch", "target", "timer"}

\* SslTransport and the threads inside Send.
\*   m_connected, m_send_cs (the owner, or "none"), socket_ok
\*   encrypt_failures trips of EncryptMessage so far
\*   pc[t], k[t]      where thread t is in its k[t]-th call of Send
\*   offset[t]        Send's offset, in bytes of encrypted records
\*   sent[t]          SendRaw's sent
\*   ec[t]            Send's ec
\*   wire             the bytes handed to send(), each tagged <<t, k, byte>>;
\*                    <<"close", 0, 0>> is the shutdown token of Close
\*   returned, failed the calls that returned Success / an error
InitSend ==
    /\ CodecIdle /\ SessIdle /\ StmIdle
    /\ p5 = <<>> /\ tcp = <<>> /\ s5s = <<>> /\ race = <<>>
    /\ orph = <<>> /\ hs = <<>> /\ win = <<>> /\ sup = <<>>
    /\ xmit = [m_connected |-> TRUE, m_send_cs |-> "none", socket_ok |-> TRUE,
               closed |-> FALSE, encrypt_failures |-> 0,
               pc |-> [t \in SendThreads |-> "idle"],
               k |-> [t \in SendThreads |-> 0],
               offset |-> [t \in SendThreads |-> 0],
               sent |-> [t \in SendThreads |-> 0],
               ec |-> [t \in SendThreads |-> "Success"],
               wire |-> <<>>, returned |-> {}, failed |-> {}]

SendIdle == UNCHANGED <<codecVars, sessVars, stmVars, p5, tcp, s5s, race, orph, hs, win, sup>>

\* A Send that does not wait for the critical section.
LockIgnored(x) == TRUE

\* EnterCriticalSection(&m_send_cs) returns once no other thread owns it.
LockFree(x) == x.m_send_cs = "none"

\* MuxSession::SendFrame on thread t: the session runs, Send is called and
\* returns SslDisconnected at once if (!m_connected).
XmitSendFrame(t) ==
    /\ xmit # <<>> /\ xmit.pc[t] = "idle" /\ xmit.k[t] < FramesPerThread
    /\ xmit' = IF xmit.m_connected
               THEN [xmit EXCEPT !.pc[t] = "enter", !.k[t] = @ + 1, !.ec[t] = "Success"]
               ELSE [xmit EXCEPT !.k[t] = @ + 1,
                                 !.failed = @ \cup {<<t, xmit.k[t] + 1>>}]
    /\ SendIdle

XmitEnter(t) ==
    /\ xmit # <<>> /\ xmit.pc[t] = "enter"
    /\ LockFree(xmit)
    /\ xmit' = [xmit EXCEPT !.m_send_cs = t, !.pc[t] = "encrypt", !.offset[t] = 0]
    /\ SendIdle

\* while (offset < len): EncryptMessage of the next chunk; a failure breaks
\* out of the loop.
XmitEncrypt(t, ss_ok) ==
    /\ xmit # <<>> /\ xmit.pc[t] = "encrypt"
    /\ xmit' = IF xmit.offset[t] >= FrameBytes
               THEN [xmit EXCEPT !.pc[t] = "leave"]
               ELSE IF ss_ok
               THEN [xmit EXCEPT !.pc[t] = "send", !.sent[t] = 0]
               ELSE [xmit EXCEPT !.pc[t] = "leave", !.ec[t] = "SslEncryptError",
                                 !.encrypt_failures = @ + 1]
    /\ ss_ok \/ xmit.encrypt_failures < MaxEncryptFailures
    /\ SendIdle

\* The bytes offset+sent+1 .. offset+sent+n of the frame thread t is sending.
WireBytes(x, t, n) ==
    [i \in 1..n |-> <<t, x.k[t], x.offset[t] + x.sent[t] + i>>]

\* One send() of SslTransport::SendRaw: it takes n of the bytes left of the
\* record, or fails (and then the socket fails every later send).
XmitSendRaw(t, n, ok) ==
    /\ xmit # <<>> /\ xmit.pc[t] = "send"
    /\ n <= RecordBytes - xmit.sent[t]
    /\ xmit' = IF ~ok \/ ~xmit.socket_ok
               THEN [xmit EXCEPT !.socket_ok = FALSE, !.pc[t] = "leave",
                                 !.ec[t] = "ConnectionReset"]
               ELSE IF xmit.sent[t] + n = RecordBytes
               THEN [xmit EXCEPT !.wire = @ \o WireBytes(xmit, t, n),
                                 !.sent[t] = 0, !.offset[t] = @ + RecordBytes,
                                 !.pc[t] = "encrypt"]
               ELSE [xmit EXCEPT !.wire = @ \o WireBytes(xmit, t, n),
                                 !.sent[t] = @ + n]
    /\ SendIdle

\* LeaveCriticalSection(&m_send_cs); return ec;
XmitLeave(t) ==
    /\ xmit # <<>> /\ xmit.pc[t] = "leave"
    /\ xmit' = [xmit EXCEPT !.m_send_cs = "none", !.pc[t] = "idle",
                            !.returned = IF xmit.ec[t] = "Success"
                                         THEN @ \cup {<<t, xmit.k[t]>>} ELSE @,
                            !.failed = IF xmit.ec[t] = "Success"
                                       THEN @ ELSE @ \cup {<<t, xmit.k[t]>>}]
    /\ SendIdle

\* SslTransport::Close on the thread of RunSession: m_connected = false, then
\* the shutdown token goes to SendRaw without the critical section.
XmitClose ==
    /\ xmit # <<>> /\ ~xmit.closed
    /\ xmit' = [xmit EXCEPT !.m_connected = FALSE, !.closed = TRUE,
                            !.wire = IF xmit.socket_ok
                                     THEN @ \o <<<<"close", 0, 0>>>> ELSE @]
    /\ SendIdle

NextSend ==
    \/ \E t \in SendThreads : XmitSendFrame(t)
    \/ \E t \in SendThreads : XmitEnter(t)
    \/ \E t \in SendThreads, ok \in BOOLEAN : XmitEncrypt(t, ok)
    \/ \E t \in SendThreads, n \in 1..RecordBytes, ok \in BOOLEAN : XmitSendRaw(t, n, ok)
    \/ \E t \in SendThreads : XmitLeave(t)
    \/ XmitClose

SpecSend == InitSend /\ [][NextSend]_vars

IsFrameByte(b) == b[1] # "close"

\* The bytes of frames on the wire, the shutdown token left out.
FrameWire == SelectSeq(xmit.wire, IsFrameByte)

ClosesIn(log) == {i \in 1..Len(log) : TypeAt(log, i) = FT_ChannelClose /\ log[i].wire}

\* Channel id is registered and has sent CHANNEL_CLOSE.
SentClose(id) == id \in DOMAIN m_channels /\ ClosesIn(sent[id]) # {}

\* The session once CHANNEL_CLOSE_ACK(id) has been dispatched to a registered
\* channel: its connection closed, the channel out of the registry.
Answered(id) ==
    [Sess EXCEPT !.m_channels = [i \in DOMAIN m_channels \ {id} |-> m_channels[i]],
                 !.sockets[id] = 0]

\* The peer answers the CHANNEL_CLOSE of a registered channel with
\* CHANNEL_CLOSE_ACK, and the transport's worker dispatches the answer.
PeerAnswersClose ==
    /\ m_running /\ SessionAlive /\ t_recv_pending
    /\ \E id \in ChanIds :
          /\ SentClose(id)
          /\ m_channels' = [i \in DOMAIN m_channels \ {id} |-> m_channels[i]]
          /\ sockets' = [sockets EXCEPT ![id] = 0]
    /\ UNCHANGED <<codecVars, stmVars, auxVars, owner_pc, m_running, m_on_disconnect,
                   m_keepalive_timer, t_connected, t_recv_pending, sent,
                   disconnect_calls, disconnect_reason, disconnect_view, t_signals>>

\* The peer of the closing channels: channel 258 completes its handshake or
\* is refused, channel 1 offers no acceptable method.
ClosingPeerFrames ==
    PeerFrames(258, {MethodOk \o ConnectIPv4}, {<<1>>}, {})
    \cup PeerFrames(1, {MethodNoAuthAbsent}, {}, {})

NextClosing ==
    \/ DoStart(FALSE)
    \/ m_running /\ \E d \in ClosingPeerFrames : \E e \in EnvsFor(d) :
                       TransportData(d, e, FALSE, MaxChannelSent)
    \/ m_running /\ \E id \in ChanIds, ec \in {"Success", "ConnectionRefused"} :
                       TargetConnectDone(id, ec, FALSE, MaxChannelSent)
    \/ m_running /\ \E id \in ChanIds, c \in RecvCompletions :
                       TargetRecvDone(id, c.bytes, c.ec, c.post_fail, MaxChannelSent)
    \/ m_running /\ \E id \in ChanIds, c \in SendCompletions :
                       TargetSendDone(id, c.ec, c.flush_fail)
    \/ m_running /\ TransportError("Success")
    \/ m_running /\ OwnerShutdown

\* A running session with a peer that answers every CHANNEL_CLOSE in the end:
\* the read posted on the transport completes once the answer has arrived,
\* and an I/O worker then runs the dispatch.
SpecClosing == Init /\ [][NextClosing]_vars /\ WF_vars(PeerAnswersClose)

\* The session after the transport has delivered frame d, the read posted again.
Delivered(d) ==
    TransportPostRecv(OnDataReceived([Sess EXCEPT !.t_recv_pending = FALSE], d, EnvOk), FALSE)

\* The peer's frames that end channel id.
ClosingFrames(id) ==
    {Encode(FT_ChannelClose, f, id, <<>>) : f \in {0, FRAME_FLAG_FIN, FRAME_FLAG_RST}}
    \cup {Encode(FT_ChannelCloseAck, 0, id, <<>>)}

\* A channel that has sent CHANNEL_CLOSE is Closing or Closed and has sent
\* nothing after it but CHANNEL_CLOSE_ACK; what PeerAnswersClose does to it
\* is the dispatch of CHANNEL_CLOSE_ACK by MuxSession::OnDataReceived.
ClosedAndQuiet ==
    \A id \in ChanIds :
        SentClose(id) =>
            /\ m_channels[id].m_state \in {"Closing", "Closed"}
            /\ (m_running /\ t_recv_pending) =>
                  /\ Delivered(Encode(FT_ChannelCloseAck, 0, id, <<>>)) = Answered(id)
                  /\ Bounded(Answered(id), MaxChannelSent)
            /\ \A i \in 1..Len(sent[id]) :
                  (\E c \in ClosesIn(sent[id]) : c < i) => TypeAt(sent[id], i) = FT_ChannelCloseAck

\* Such a channel leaves the registry only in a step that dispatches the
\* peer's CHANNEL_CLOSE or CHANNEL_CLOSE_ACK for it, that replaces it on a
\* CHANNEL_OPEN, or that ends the session.
LeavesOnAnswer ==
    \A id \in ChanIds :
        (SentClose(id) /\ ~SentClose(id)') =>
            \/ ~m_running'
            \/ \E d \in ClosingFrames(id) : Sess' = Delivered(d)
            \/ Sess' = Delivered(Encode(FT_ChannelOpen, 0, id, <<>>))

DatasIn(log) == {i \in 1..Len(log) : TypeAt(log, i) = FT_Data}

\* C34: when the connection of a channel in Relaying or Connecting reports
\* its disconnect, the channel emits one CHANNEL_CLOSE(FIN) and nothing else
\* and is Closing; from then on target data produce no DATA frame, DATA from
\* the peer reaches no connection and a second report changes nothing.  A
\* disconnect reported in any other state emits no frame and leaves the state
\* as it is.  In the logs no DATA frame follows a CHANNEL_CLOSE(FIN).
C34_TargetDisconnect ==
    /\ \A id \in DOMAIN m_channels :
          LET x == Ctx(m_channels[id])
              y == OnTargetDisconnected(x)
              T == Stored(Sess, id, y)
          IN  /\ x.ch.m_state \in {"Relaying", "Connecting"} =>
                    /\ Len(y.out) = 1
                    /\ IsFrame(y.out[1], FT_ChannelClose, FRAME_FLAG_FIN, id, <<>>)
                    /\ y.ch.m_state = "Closing"
                    /\ \A b \in TargetBuffers : OnTargetData(y, b) = y
                    /\ \A p \in DataPayloads, f \in BOOLEAN : OnData(y, p, f) = y
                    /\ OnTargetDisconnected(y) = y
                    /\ \A p \in DataPayloads, f \in BOOLEAN :
                          OnDataReceived(T, Encode(FT_Data, 0, id, p),
                                         [EnvOk EXCEPT !.send_fail = f]) = T
              /\ x.ch.m_state \notin {"Relaying", "Connecting"} =>
                    /\ y.out = <<>>
                    /\ y.ch.m_state = x.ch.m_state
              /\ x.ch.m_target.recv_pending =>
                    \A c \in TargetDisconnects :
                        LET z == TargetRecvComplete(x, c.bytes, c.ec, c.post_fail)
                        IN  z.out = y.out /\ z.ch.m_state = y.ch.m_state
    /\ \A id \in ChanIds :
          \A c \in ClosesIn(sent[id]) :
              FlagsAt(sent[id], c) = FRAME_FLAG_FIN =>
                  \A d \in DatasIn(sent[id]) : d < c

\* Channel 258 relayed a byte of its target, the target then disconnected:
\* the channel is Closing, its connection closed, CHANNEL_CLOSE(FIN) is the
\* last frame of its log.
C34_Witness ==
    /\ m_running
    /\ 258 \in DOMAIN m_channels
    /\ m_channels[258].m_state = "Closing"
    /\ m_channels[258].m_target.exists
    /\ ~m_channels[258].m_target.m_connected
    /\ Len(sent[258]) = 5
    /\ TypeAt(sent[258], 4) = FT_Data
    /\ IsFrame(sent[258][5].frame, FT_ChannelClose, FRAME_FLAG_FIN, 258, <<>>)

\* C36: a WINDOW_UPDATE is applied only when its payload is exactly 4 bytes
\* long: the send_window of the addressed channel then grows by the
\* little-endian increment and nothing else changes; with any other payload
\* length, or for an id that is not registered, the session is left as it is.
C36_ExactlyFourBytes ==
    m_running =>
        \A id \in ChanIds, p \in WindowUpdatePayloads :
            LET T == OnDataReceived(Sess, Encode(FT_WindowUpdate, 0, id, p), EnvOk)
            IN  IF Len(p) = 4 /\ id \in DOMAIN m_channels
                THEN T = [Sess EXCEPT
                            !.m_channels[id].m_send_window = U32(@ + FromLE32(p)),
                            !.m_channels[id].h_credit = @ + FromLE32(p)]
                ELSE T = Sess

\* ------------------------------------------- split handshake harness

\* Channel 258 after CHANNEL_OPEN, with nothing sent yet.
OpenedChannel == [OnOpen(Ctx(NewChannel(258, ChannelWindowSize))) EXCEPT !.out = <<>>]

\* The channel is given the handshake msg = method request \o CONNECT request
\* in CHANNEL_REQUEST payloads of any lengths.
\*   methods, target   what the messages say
\*   connect_ec        what ConnectAsync returns
\*   fed               bytes of msg given so far
\*   x                 the channel and the frames it has emitted
\*   cut_method, cut_connect   a payload ended inside the method request,
\*                             inside the CONNECT request
\*   joined            a payload held the end of the method request and the
\*                     start of the CONNECT request
InitHandshake ==
    /\ CodecIdle /\ SessIdle /\ StmIdle
    /\ p5 = <<>> /\ tcp = <<>> /\ s5s = <<>> /\ race = <<>>
    /\ orph = <<>> /\ xmit = <<>> /\ win = <<>> /\ sup = <<>>
    /\ \E m \in MethodLists, t \in ConnectTargets, ec \in {"Success", "DnsResolutionFailed"} :
          hs = [methods |-> m, target |-> t, connect_ec |-> ec,
                msg |-> MethodMessage(m) \o ConnectMessage(t),
                fed |-> 0, x |-> OpenedChannel,
                cut_method |-> FALSE, cut_connect |-> FALSE, joined |-> FALSE]

HandshakeIdle ==
    UNCHANGED <<codecVars, sessVars, stmVars, p5, tcp, s5s, race, orph, xmit, win, sup>>

\* MuxSession::HandleChannelRequest with the next n bytes of the handshake.
HsRequest(n) ==
    /\ hs # <<>>
    /\ hs.fed + n <= Len(hs.msg)
    /\ LET end == hs.fed + n
           mlen == 2 + Len(hs.methods)
       IN  hs' = [hs EXCEPT
                    !.fed = end,
                    !.x = OnRequest(@, SubSeq(hs.msg, hs.fed + 1, end), hs.connect_ec),
                    !.cut_method = @ \/ end < mlen,
                    !.cut_connect = @ \/ (end > mlen /\ end < Len(hs.msg)),
                    !.joined = @ \/ (hs.fed < mlen /\ end > mlen)]
    /\ HandshakeIdle

\* Payload lengths up to the longest handshake (a CONNECT request for an
\* IPv6 address has 22 bytes).
PieceLens == 1..(2 + MaxMethods + 22)

NextHandshake == \E n \in PieceLens : HsRequest(n)

SpecHandshake == InitHandshake /\ [][NextHandshake]_vars

\* The channel given the first fed bytes in one CHANNEL_REQUEST payload.
InOnePayload == OnRequest(OpenedChannel, SubSeq(hs.msg, 1, hs.fed), hs.connect_ec)

\* The CHANNEL_REQUEST_ACK frames among frames, with this payload.
AcksWith(frames, payload) ==
    {i \in 1..Len(frames) : IsFrame(frames[i], FT_ChannelRequestAck, 0, 258, payload)}

\* C35: however the handshake bytes are split into CHANNEL_REQUEST payloads,
\* the channel emits the frames, and is in the state and holds the request,
\* that it would if the bytes had come in one payload; the method response
\* goes out once, when the method request is complete; with the handshake
\* complete, a method list offering NO_AUTH and the connect started, the
\* channel is Connecting to the host and port of the message.
C35_SplitIndependent ==
    hs # <<>> =>
        /\ hs.x.out = InOnePayload.out
        /\ hs.x.ch.m_state = InOnePayload.ch.m_state
        /\ hs.x.ch.m_method_done = InOnePayload.ch.m_method_done
        /\ hs.x.ch.m_connect_req = InOnePayload.ch.m_connect_req
        /\ hs.x.ch.m_target = InOnePayload.ch.m_target
        /\ Cardinality(AcksWith(hs.x.out, BuildMethodResponse(AUTH_NONE))
                       \cup AcksWith(hs.x.out, BuildMethodResponse(AUTH_NO_ACCEPTABLE)))
              = (IF hs.fed >= 2 + Len(hs.methods) THEN 1 ELSE 0)
        /\ (/\ hs.fed = Len(hs.msg)
            /\ \E i \in 1..Len(hs.methods) : hs.methods[i] = AUTH_NONE
            /\ hs.connect_ec = "Success") =>
                /\ hs.x.ch.m_state = "Connecting"
                /\ hs.x.ch.m_connect_req = hs.target
                /\ hs.x.ch.m_socks5_buf = <<>>
                /\ hs.x.ch.m_target.connect_pending
                /\ Len(hs.x.out) = 1
                /\ IsFrame(hs.x.out[1], FT_ChannelRequestAck, 0, 258,
                           BuildMethodResponse(AUTH_NONE))

\* A handshake for a domain name that came in payloads cut inside both
\* messages, a further one in a payload holding the end of the first message
\* and the start of the second; the channel is Connecting.
C35_Witness ==
    /\ hs # <<>>
    /\ hs.fed = Len(hs.msg)
    /\ hs.target.atyp = ATYP_DOMAIN
    /\ Len(hs.methods) = 2
    /\ hs.cut_method /\ hs.cut_connect /\ hs.joined
    /\ hs.x.ch.m_state = "Connecting"

\* ------------------------------------------------ window counter harness

\* Increments the peer announces (any uint32_t is a valid payload), DATA
\* payloads and target buffers of this harness.
WinIncrements == {1, 2, UINT32_MOD - 1}
WinPayloads == {<<1>>, <<1, 2>>}
WinBuffers == {<<21>>, <<21, 22, 23>>}

\* Channel 258 relaying, nothing emitted yet.
RelayingChannel ==
    [TargetConnectComplete(OnRequest(OpenedChannel, MethodOk \o ConnectIPv4, "Success"),
                           "Success", FALSE)
        EXCEPT !.out = <<>>]

\* One relaying channel and its window counters.
\*   x           the channel
\*   send_exact  initial window + increments received - bytes deducted
\*   recv_exact  initial window + increments announced to the peer
\* both as unbounded integers.
InitWindow ==
    /\ CodecIdle /\ SessIdle /\ StmIdle
    /\ p5 = <<>> /\ tcp = <<>> /\ s5s = <<>> /\ race = <<>>
    /\ orph = <<>> /\ xmit = <<>> /\ hs = <<>> /\ sup = <<>>
    /\ win = [x |-> RelayingChannel,
              send_exact |-> ChannelWindowSize, recv_exact |-> ChannelWindowSize]

WindowIdle ==
    UNCHANGED <<codecVars, sessVars, stmVars, p5, tcp, s5s, race, orph, xmit, hs, sup>>

\* The counters hold the exact values.
WinExact ==
    /\ win.x.ch.m_send_window = win.send_exact
    /\ win.x.ch.m_recv_window = win.recv_exact

\* The channel after an event, as the next event finds it: the frames it
\* emitted are gone to the transport and the write to the target has completed.
Settled(y) ==
    [y EXCEPT !.out = <<>>, !.ch.m_target = win.x.ch.m_target,
              !.ch.h_credit = 0, !.ch.h_accepted = 0]

\* The sum of the increments of the WINDOW_UPDATE frames among frames.
RECURSIVE Announced(_)
Announced(frames) ==
    IF frames = <<>> THEN 0
    ELSE (IF HeaderOf(Head(frames)).type = FT_WindowUpdate
          THEN FromLE32(PayloadOf(Head(frames))) ELSE 0)
         + Announced(Tail(frames))

\* WINDOW_UPDATE with this increment: Channel::OnWindowUpdate.
WinUpdate(increment) ==
    /\ win # <<>> /\ WinExact
    /\ win' = [win EXCEPT !.x = Settled(OnWindowUpdate(@, increment)),
                          !.send_exact = @ + increment]
    /\ WindowIdle

\* DATA from the peer: Channel::OnData.
WinData(p) ==
    /\ win # <<>> /\ WinExact
    /\ LET y == OnData(win.x, p, FALSE)
       IN  win' = [win EXCEPT !.x = Settled(y),
                              !.recv_exact = @ + Announced(y.out)]
    /\ WindowIdle

\* Bytes from the target: Channel::OnTargetData.
WinTargetData(b) ==
    /\ win # <<>> /\ WinExact
    /\ win' = [win EXCEPT !.x = Settled(OnTargetData(@, b)),
                          !.send_exact = @ - Min(Len(b), @)]
    /\ WindowIdle

NextWindow ==
    \/ \E i \in WinIncrements : WinUpdate(i)
    \/ \E p \in WinPayloads : WinData(p)
    \/ \E b \in WinBuffers : WinTargetData(b)

SpecWindow == InitWindow /\ [][NextWindow]_vars

\* C37: the window counters never wrap: send_window is the initial window
\* plus the increments received minus the bytes deducted, recv_window the
\* initial window plus the increments announced, as exact sums, and neither
\* reads negative.
C37_NoWrap ==
    win # <<>> => (WinExact /\ win.send_exact >= 0 /\ win.recv_exact >= 0)

\* ------------------------------------------------- replacing CHANNEL_OPEN

\* C38: a CHANNEL_OPEN for a registered id replaces the channel: destroying
\* the old channel closes its connection's socket and sends nothing; the
\* channel then stored under the id is a fresh one in Requesting, with an
\* empty SOCKS5 buffer, no connection and full windows; exactly one
\* CHANNEL_OPEN_ACK goes out for the id and nothing else; the registry holds
\* the same ids as before.
C38_OpenReplaces ==
    orph # <<>> =>
        \A id \in DOMAIN orph.S.m_channels :
            LET S == orph.S
                R == RemoveChannel(S, id)
                T == OnDataReceived(S, Encode(FT_ChannelOpen, 0, id, <<>>), EnvOk)
            IN  /\ R.sent = S.sent
                /\ R.sockets[id] = 0
                /\ DestroyChannel(Ctx(S.m_channels[id])).out = <<>>
                /\ ~DestroyChannel(Ctx(S.m_channels[id])).ch.m_target.exists
                /\ DOMAIN T.m_channels = DOMAIN S.m_channels
                /\ T.m_channels[id] =
                      [NewChannel(id, ChannelWindowSize) EXCEPT !.m_state = "Requesting"]
                /\ T.m_channels[id].m_socks5_buf = <<>>
                /\ T.m_channels[id].m_send_window = ChannelWindowSize
                /\ T.m_channels[id].m_recv_window = ChannelWindowSize
                /\ T.sockets[id] = 0
                /\ T.sent[id] = SendFrame([S EXCEPT !.sent[id] = <<>>],
                                          Encode(FT_ChannelOpenAck, 0, id, <<>>)).sent[id]
                /\ Len(T.sent[id]) = 1
                /\ \A j \in LogIds \ {id} : T.sent[j] = S.sent[j]

\* A CHANNEL_OPEN has replaced channel 258 while its connect was in flight:
\* the channel registered now is in Requesting with the CHANNEL_OPEN_ACK as
\* its only frame, and the cancelled connect of the old one is left behind.
C38_Witness ==
    /\ orph # <<>>
    /\ orph.replaced
    /\ orph.S.m_running
    /\ 258 \in DOMAIN orph.S.m_channels
    /\ orph.S.m_channels[258].m_state = "Requesting"
    /\ Len(orph.S.sent[258]) = 1
    /\ orph.left[258]["connect"] = 1
    /\ orph.S.sockets[258] = 0

\* ------------------------------------------------- one CHANNEL_CLOSE

\* Positions of the CHANNEL_CLOSE frames passed to SendFrame in a log.
AllClosesIn(log) == {i \in 1..Len(log) : TypeAt(log, i) = FT_ChannelClose}

\* The frames that the events a channel can meet make it emit.
EmittedBy(x) ==
    {OnRequest(x, p, ec).out : p \in ReqPayloads, ec \in {"Success", "DnsResolutionFailed"}}
    \cup {OnData(x, p, f).out : p \in DataPayloads, f \in BOOLEAN}
    \cup {OnWindowUpdate(x, i).out : i \in {1, 3}}
    \cup {OnTargetConnected(x, ec, f).out : ec \in ConnectErrors \cup {"Success"}, f \in BOOLEAN}
    \cup {OnTargetData(x, b).out : b \in TargetBuffers}
    \cup {OnTargetDisconnected(x).out, ForceClose(x).out, DestroyChannel(x).out}

\* C39: the log of a channel (the frames since the CHANNEL_OPEN that created
\* it) holds at most one CHANNEL_CLOSE, and no CHANNEL_REQUEST_ACK and no DATA
\* after it; a registered channel that has emitted its CHANNEL_CLOSE emits
\* nothing on any request, data, window update or target event, and only the
\* CHANNEL_CLOSE_ACK on the peer's CHANNEL_CLOSE.
C39_OneClose ==
    /\ \A id \in ChanIds :
          /\ Cardinality(AllClosesIn(sent[id])) <= 1
          /\ \A c \in AllClosesIn(sent[id]) : \A i \in (c + 1)..Len(sent[id]) :
                TypeAt(sent[id], i) \notin {FT_ChannelRequestAck, FT_Data, FT_ChannelClose}
    /\ \A id \in DOMAIN m_channels :
          AllClosesIn(sent[id]) # {} =>
              /\ EmittedBy(Ctx(m_channels[id])) = {<<>>}
              /\ \A f \in {0, FRAME_FLAG_FIN, FRAME_FLAG_RST} :
                    OnClose(Ctx(m_channels[id]), f).out
                       = <<Encode(FT_ChannelCloseAck, 0, id, <<>>)>>

\* Channel 1 offered no acceptable method: it has sent the refusal and
\* CHANNEL_CLOSE(RST), is Closed and still registered, next to channel 258
\* in Requesting.
C39_Witness ==
    /\ m_running
    /\ DOMAIN m_channels = ChanIds
    /\ m_channels[1].m_state = "Closed"
    /\ Len(sent[1]) = 3
    /\ IsFrame(sent[1][2].frame, FT_ChannelRequestAck, 0, 1,
               BuildMethodResponse(AUTH_NO_ACCEPTABLE))
    /\ IsFrame(sent[1][3].frame, FT_ChannelClose, FRAME_FLAG_RST, 1, <<>>)
    /\ m_channels[258].m_state = "Requesting"

\* ------------------------------------------------ reconnect loop harness

\* Stand-in for INT_MAX = 2^31 - 1, the largest value of the int delay_ms.
IntMax == 31

\* An int result on the usual two's complement machine.
WrapInt(v) == ((v + IntMax + 1) % (2 * (IntMax + 1))) - (IntMax + 1)

\* main from "Reconnect loop with exponential backoff" on.
\*   initial, max   config.reconnect_delay_initial_ms, reconnect_delay_max_ms
\*                  (atoi of the arguments: any int; here 0 < initial <= max)
\*   delay_ms       the local of main
\*   pc             "run" (in RunSession), "test", "sleep", "backoff", "exit"
\*   g_shutdown     set by the console control handler
\*   connected      the session that just ended had connected
\*   slept          the argument of the last Sleep, <<>> before the first
\*   sleeps, backoffs   calls of Sleep and backoff statements so far (0, 1,
\*                  2 or more)
\*   before         delay_ms before the last backoff statement
InitSupervisor ==
    /\ CodecIdle /\ SessIdle /\ StmIdle
    /\ p5 = <<>> /\ tcp = <<>> /\ s5s = <<>> /\ race = <<>>
    /\ orph = <<>> /\ xmit = <<>> /\ hs = <<>> /\ win = <<>>
    /\ \E i \in 1..IntMax : \E m \in i..IntMax :
          sup = [initial |-> i, max |-> m, delay_ms |-> i, pc |-> "run",
                 g_shutdown |-> FALSE, connected |-> FALSE,
                 slept |-> <<>>, sleeps |-> 0, backoffs |-> 0, before |-> i]

SupervisorIdle ==
    UNCHANGED <<codecVars, sessVars, stmVars, p5, tcp, s5s, race, orph, xmit, hs, win>>

\* ConsoleCtrlHandler sets g_shutdown.
SupCtrl ==
    /\ sup # <<>> /\ ~sup.g_shutdown /\ sup.pc # "exit"
    /\ sup' = [sup EXCEPT !.g_shutdown = TRUE]
    /\ SupervisorIdle

\* while (!g_shutdown) { RunSession(config); ... : the session ends, having
\* connected or not.
SupRunSession(connected) ==
    /\ sup # <<>> /\ sup.pc = "run"
    /\ sup' = IF sup.g_shutdown
              THEN [sup EXCEPT !.pc = "exit"]
              ELSE [sup EXCEPT !.pc = "test", !.connected = connected]
    /\ SupervisorIdle

\* if (g_shutdown) break;
SupTest ==
    /\ sup # <<>> /\ sup.pc = "test"
    /\ sup' = [sup EXCEPT !.pc = IF sup.g_shutdown THEN "exit" ELSE "sleep"]
    /\ SupervisorIdle

\* Sleep(static_cast<DWORD>(delay_ms));
SupSleep ==
    /\ sup # <<>> /\ sup.pc = "sleep"
    /\ sup' = [sup EXCEPT !.pc = "backoff", !.slept = <<sup.delay_ms>>,
                          !.sleeps = IF @ < 2 THEN @ + 1 ELSE @]
    /\ SupervisorIdle

\* delay_ms = (std::min)(delay_ms * 2, config.reconnect_delay_max_ms);
\* When delay_ms * 2 is above INT_MAX the multiplication overflows a signed
\* int: the build either wraps the product or has computed it in a wider
\* register.
SupBackoff(wraps) ==
    /\ sup # <<>> /\ sup.pc = "backoff"
    /\ LET product == IF sup.delay_ms * 2 > IntMax /\ ~wraps
                      THEN sup.delay_ms * 2 ELSE WrapInt(sup.delay_ms * 2)
       IN  sup' = [sup EXCEPT !.delay_ms = Min(product, sup.max),
                              !.before = sup.delay_ms, !.pc = "run",
                              !.backoffs = IF @ < 2 THEN @ + 1 ELSE @]
    /\ SupervisorIdle

NextSupervisor ==
    \/ SupCtrl
    \/ \E c \in BOOLEAN : SupRunSession(c)
    \/ SupTest
    \/ SupSleep
    \/ \E w \in BOOLEAN : SupBackoff(w)

SpecSupervisor == InitSupervisor /\ [][NextSupervisor]_vars

\* C40: the first Sleep takes the configured initial delay; each backoff
\* statement makes the delay min(2 * delay, maximum), whether or not the
\* session had connected; the delay never decreases and never exceeds the
\* maximum.
C40_Backoff ==
    sup # <<>> =>
        /\ sup.sleeps = 1 => sup.slept = <<sup.initial>>
        /\ sup.delay_ms = (IF sup.backoffs = 0 THEN sup.initial
                           ELSE Min(2 * sup.before, sup.max))
        /\ sup.before <= sup.delay_ms
        /\ sup.initial <= sup.delay_ms
        /\ sup.delay_ms <= sup.max
        /\ sup.slept # <<>> => sup.slept[1] \in sup.initial..sup.max

====
